---- MODULE Spec2Model ----
(***************************************************************************)
(* The escalation controller of smartfetch: SmartFetch.processTranscript   *)
(* and enhancedExtractFromTranscript (src/SmartFetchExtension/offscreen.js)*)
(* on top of EnhancedAIPostProcessor, RateLimitedQueue and FailureTracker  *)
(* (src/aiPostProcessor.js).                                               *)
(*                                                                         *)
(* Confidences and thresholds are in tenths (0.6 is 6, the range [0,1] is  *)
(* 0..10); times are in milliseconds.  Every action is one run-to-         *)
(* completion segment of the JavaScript event loop: the code between two   *)
(* awaits whose promise is settled by a timer, the network or the file     *)
(* system.                                                                 *)
(***************************************************************************)
EXTENDS Integers, Sequences, FiniteSets, TLC

\* ------------------------------------------------------------------ bounds
MaxItems == 2
MaxRPM == 2
MaxSteps == 1

\* ------------------------------------------------------- program constants
Minute == 60000
RateBuffer == 1000
RequestDelay == 100
RequestTimeout == 15000
DefaultAcceptThreshold == 6
DefaultReviewThreshold == 3
DefaultAiThreshold == 4
DefaultRequestsPerMinute == 18
QueueRequestsPerMinute == 20
ProcessorThreshold == 4
EnhancedThreshold == 4
EnhancedRequestsPerMinute == 20

Items == 1..MaxItems
Queues == 0..MaxItems
HalfMinute == Minute \div 2

VARIABLES
    cfgIn,        \* the config object handed to new SmartFetch(...), and the environment
    config,       \* SmartFetch.config after the constructor
    aiProcessor,  \* SmartFetch.aiProcessor after initializeAI
    batch,        \* the source items of this run
    inputs,       \* per item: entry point, heuristic result, videoData, the scorer's answer
    pc,           \* per item: where its pipeline is suspended
    result,       \* per item: the record the entry point returned
    caught,       \* per item: the error processResult caught ("none" when it caught none)
    snapshot,     \* per item: the local array `failures` of its logFailure call
    requests,     \* per queue: RateLimitedQueue.requests
    processing,   \* per queue: RateLimitedQueue.processing
    recent,       \* per queue: RateLimitedQueue.recentRequests
    loop,         \* per add() call: the process() loop that call started, if any
    logFile,      \* the records of failed-ai-requests.json
    now,          \* Date.now()
    started,      \* history: every secondary-scorer call started, with its time
    settles       \* history: per item, the resolve/reject calls made on its add() promise

escalationVars ==
    <<cfgIn, config, aiProcessor, batch, inputs, pc, result, caught, snapshot,
      requests, processing, recent, loop, logFile, now, started, settles>>

\* The persistence sink (syncToSheet): the sheet and the calls in flight.
VARIABLES
    rows,         \* the sourceId column of the sheet, one entry per row
    sync          \* per syncToSheet call: its postData, where it is suspended, its outcome

sinkVars == <<rows, sync>>

\* The confidence scorer (scoreMatch), applied to one CandidateSet.
VARIABLES
    scorer,       \* which scoreMatch of the repository scores
    cand,         \* the argument object of scoreMatch
    scored,       \* what scoreMatch returned for cand, once it was called
    previous      \* the call before a code was added: its codes and its score

scoreVars == <<scorer, cand, scored, previous>>

\* Extraction (extractFromTranscript), applied to one input.
VARIABLES
    textExtract,  \* which textExtract module of the repository extracts
    transcript,   \* the argument of extractFromTranscript
    extraction    \* what extractFromTranscript returned, once it was called

extractVars == <<textExtract, transcript, extraction>>

\* The candidate filter (isValidCode), applied to one candidate.
VARIABLES
    candidate,    \* the argument of isValidCode
    verdict       \* what isValidCode returned, once it was called

filterVars == <<candidate, verdict>>

\* The retry driver (FailedRequestRetrier) and the failure log it works on.
VARIABLES
    retrier,      \* the configuration the retrier was constructed with
    failureLog,   \* the records of the failure file, in file order
    retryRun,     \* the retryAll call in progress
    reissued,     \* per video, the requests the retry driver has issued so far
    wallClock     \* Date.now(), in units of retryDelay

retryVars == <<retrier, failureLog, retryRun, reissued, wallClock>>

\* What the extraction module keeps between two calls of extractCodes, and the
\* calls made so far.
VARIABLES
    coreBlacklist,  \* the module's set of blacklisted terms
    lastIndex,      \* lastIndex of each custom pattern of channelRules
    lastCall,       \* the latest call of extractCodes: its arguments and its result
    remembered,     \* an earlier call
    overlaysUsed,   \* the channels of the calls before the latest one
    callCount       \* the calls made

overlayVars == <<coreBlacklist, lastIndex, lastCall, remembered, overlaysUsed, callCount>>

\* A RateLimitedQueue on its own, with the callbacks and functions of any caller.
VARIABLES
    rlq,          \* the queue object: its options, requests, processing, recentRequests
    workers,      \* per process() call that went past its first line: where it is suspended
    settled,      \* per request: how its add() promise was settled
    begun,        \* history: the requests in the order their fn was called
    added,        \* the add() calls made
    qclock        \* Date.now()

queueVars == <<rlq, workers, settled, begun, added, qclock>>

\* The adaptive rate limiter and the callers of its wait().
VARIABLES
    limiter,      \* the AdaptiveRateLimiter object
    callers,      \* per caller: where it is in wait() and in the gated operation
    starts,       \* history: when each gated operation started, and the delay its wait() read
    lclock        \* Date.now()

limiterVars == <<limiter, callers, starts, lclock>>

\* A BatchProcessor and one call of its processInBatches.
VARIABLES
    batcher,      \* the BatchProcessor object
    tasks,        \* per item: where its mapped function and its processWithRetry are
    batchRun      \* processInBatches: its position, loop index, results and errors

batchVars == <<batcher, tasks, batchRun>>

\* A CircuitBreaker and the execute() calls made on it.
VARIABLES
    breaker,      \* the CircuitBreaker object
    calls,        \* per caller: where its execute() is, or how it ended
    bhist,        \* history: the outcomes of the operations, when the breaker opened
    bclock        \* Date.now()

breakerVars == <<breaker, calls, bhist, bclock>>

\* One call of fetchAllVideos.
VARIABLES
    pager,        \* the locals of the call: videos, nextPageToken, totalRequests
    fetched       \* what the call returned

pagerVars == <<pager, fetched>>

\* The utilities of the fetchers: each is used by a specification of its own.
toolVars == <<limiterVars, batchVars, breakerVars, pagerVars>>

\* The components other than the escalation controller.
others == <<sinkVars, scoreVars, extractVars, filterVars, retryVars, overlayVars, queueVars, toolVars>>
exceptSink ==
    <<escalationVars, scoreVars, extractVars, filterVars, retryVars, overlayVars, queueVars, toolVars>>
exceptScore ==
    <<escalationVars, sinkVars, extractVars, filterVars, retryVars, overlayVars, queueVars, toolVars>>
exceptExtract ==
    <<escalationVars, sinkVars, scoreVars, filterVars, retryVars, overlayVars, queueVars, toolVars>>
exceptFilter ==
    <<escalationVars, sinkVars, scoreVars, extractVars, retryVars, overlayVars, queueVars, toolVars>>
exceptRetry ==
    <<escalationVars, sinkVars, scoreVars, extractVars, filterVars, overlayVars, queueVars, toolVars>>
exceptOverlay == <<escalationVars, sinkVars, scoreVars, filterVars, retryVars, queueVars, toolVars>>
exceptQueue ==
    <<escalationVars, sinkVars, scoreVars, extractVars, filterVars, retryVars, overlayVars,
      toolVars>>
exceptTools ==
    <<escalationVars, sinkVars, scoreVars, extractVars, filterVars, retryVars, overlayVars,
      queueVars>>
exceptLimiter == <<exceptTools, batchVars, breakerVars, pagerVars>>
exceptBatch == <<exceptTools, limiterVars, breakerVars, pagerVars>>
exceptBreaker == <<exceptTools, limiterVars, batchVars, pagerVars>>
exceptPager == <<exceptTools, limiterVars, batchVars, breakerVars>>

vars == <<escalationVars, others>>

\* ------------------------------------------------------ components at rest
MaxWriters == 2
Writers == 1..MaxWriters

\* No syncToSheet call was made.
NoSync == [sourceId |-> "", pc |-> "idle", outcome |-> "none"]

SinkIdle ==
    /\ rows = <<>>
    /\ sync = [w \in Writers |-> NoSync]

\* codeConfidence = {}
NoConfidence == [code \in {} |-> 0]

\* rawText = '': no code, no phrase in it.
NoText == [codes |-> {}, phrases |-> {}, near |-> {}, keyword |-> {}]

\* videoMetadata = {}
NoMetadata == [channelCodes |-> {}, category |-> "", subscriberCount |-> 0]

\* scoreMatch() called with no argument: every list empty.
NoCandidates ==
    [codes |-> {}, codeConfidence |-> NoConfidence, links |-> {}, percent_off |-> {},
     flat_discount |-> {}, rawText |-> NoText, videoMetadata |-> NoMetadata,
     sponsorBrands |-> {}, confidenceBoosts |-> 0, extractor |-> "textExtract.js",
     tier |-> NoConfidence]

NotScored == [done |-> FALSE, score |-> 0, confidence |-> 0, added |-> <<>>]

ScoreIdle ==
    /\ scorer = "scoreMatch.js"
    /\ cand = NoCandidates
    /\ scored = NotScored
    /\ previous = NotScored

\* A JavaScript value handed to extraction: its type, the pieces of text of a
\* string, the elements of an array.
Value(type, pieces, lines) == [type |-> type, pieces |-> pieces, lines |-> lines]

null == Value("null", <<>>, <<>>)

NotExtracted ==
    [done |-> FALSE, call |-> "none", threw |-> FALSE, codes |-> {}, tier |-> NoConfidence, links |-> {},
     percent_off |-> {}, flat_discount |-> {}, confidence |-> 0]

ExtractIdle ==
    /\ textExtract = "textExtract.js"
    /\ transcript = null
    /\ extraction = NotExtracted

NotFiltered == [done |-> FALSE, kept |-> FALSE]

FilterIdle ==
    /\ candidate = <<>>
    /\ verdict = NotFiltered

\* The videos of the failure log.
Videos == {1, 2}

NoRun == [phase |-> "idle", filtered |-> <<>>, index |-> 0, logged |-> FALSE]

RetryIdle ==
    /\ retrier = [maxRetries |-> <<>>]
    /\ failureLog = <<>>
    /\ retryRun = NoRun
    /\ reissued = [v \in Videos |-> 0]
    /\ wallClock = 0

\* The terms of coreBlacklist that are five characters long and not in techTerms.
CoreBlacklist ==
    {<<"C", "O", "D", "E", "S">>, <<"P", "R", "O", "M", "O">>, <<"B", "O", "N", "U", "S">>,
     <<"L", "I", "N", "U", "S">>, <<"M", "K", "B", "H", "D">>, <<"V", "I", "D", "E", "O">>,
     <<"M", "E", "R", "C", "H">>}

CustomPatterns == {"lttCode", "techSpecs", "lacksGlobalFlag"}

NoChannel == "null"

NoCall ==
    [done |-> FALSE, text |-> <<>>, channelId |-> NoChannel,
     result |-> [threw |-> FALSE, codes |-> {}, tier |-> NoConfidence, links |-> {},
                 percent_off |-> {}, flat_discount |-> {}, boosts |-> 0]]

OverlayIdle ==
    /\ coreBlacklist = CoreBlacklist
    /\ lastIndex = [pattern \in CustomPatterns |-> 0]
    /\ lastCall = NoCall
    /\ remembered = NoCall
    /\ overlaysUsed = {}
    /\ callCount = 0

MaxRequests == 3

\* The requests, numbered in the order of their add() calls; process() calls that
\* are not made by add() are numbered 0.
Requests == 1..MaxRequests

NoWorker == [st |-> "none", cur |-> 0, due |-> 0]

QueueIdle ==
    /\ rlq = [requestsPerMinute |-> <<>>, onSuccessThrows |-> FALSE, onErrorThrows |-> FALSE,
              requests |-> <<>>, processing |-> FALSE, recentRequests |-> <<>>]
    /\ workers = [w \in 0..MaxRequests |-> NoWorker]
    /\ settled = [r \in Requests |-> "pending"]
    /\ begun = <<>>
    /\ added = 0
    /\ qclock = 0

MaxCallers == 2

Callers == 1..MaxCallers

NotCalling == [pc |-> "idle", due |-> 0, delay |-> 0]

LimiterIdle ==
    /\ limiter = [module |-> "index.js", baseDelay |-> 200000, currentDelay |-> 200000,
                  lastCall |-> 0, successCount |-> 0, errorCount |-> 0,
                  consecutiveErrors |-> 0]
    /\ callers = [c \in Callers |-> NotCalling]
    /\ starts = <<>>
    /\ lclock = 0

MaxBatchItems == 2

NoTask ==
    [pc |-> "unmapped", attempt |-> 0, invoked |-> 0, successAt |-> 0, lastError |-> 0,
     thrown |-> 0, retry |-> "none", value |-> "none", successful |-> 0, failed |-> 0]

BatchIdle ==
    /\ batcher = [maxConcurrent |-> 5, maxRetries |-> 3, progressCallback |-> FALSE,
                  processed |-> 0, successful |-> 0, failed |-> 0, inProgress |-> {}]
    /\ tasks = [t \in 1..MaxBatchItems |-> NoTask]
    /\ batchRun = [pc |-> "new", i |-> 0, n |-> 0, results |-> <<>>, errors |-> {}]

MaxCalling == 2
MaxExecutes == 4

BreakerIdle ==
    /\ breaker = [module |-> "index.js", threshold |-> 5, timeout |-> 60000,
                  failureCount |-> 0, state |-> "CLOSED", nextAttempt |-> 0,
                  lastFailureTime |-> 0]
    /\ calls = [c \in 1..MaxCalling |-> "idle"]
    /\ bhist = [outcomes |-> <<>>, openedAt |-> 0, executed |-> 0, invoked |-> 0]
    /\ bclock = 0

PagerIdle ==
    /\ pager = [pc |-> "new", maxTotalVideos |-> 0, maxRequests |-> 0, videos |-> 0,
                malformed |-> FALSE, nextPageToken |-> FALSE, totalRequests |-> 0]
    /\ fetched = [success |-> FALSE, totalResults |-> 0, totalRequests |-> 0]

ToolsIdle == LimiterIdle /\ BatchIdle /\ BreakerIdle /\ PagerIdle

OthersIdle ==
    /\ SinkIdle /\ ScoreIdle /\ ExtractIdle /\ FilterIdle /\ RetryIdle /\ OverlayIdle
    /\ QueueIdle /\ ToolsIdle

\* ------------------------------------------------------------------ values
\* An optional config field: <<>> is undefined, <<v>> is the value v.
Some(v) == <<v>>
None == <<>>

\* `field || dflt`: undefined and 0 are both falsy.
OrDefault(opt, dflt) == IF opt = None \/ opt[1] = 0 THEN dflt ELSE opt[1]

RECURSIVE SeqMin(_)
SeqMin(s) ==
    IF Len(s) = 1 THEN s[1]
    ELSE LET m == SeqMin(Tail(s)) IN IF s[1] < m THEN s[1] ELSE m

SetMin(S) == CHOOSE x \in S : \A y \in S : x <= y

Includes(s, x) == \E k \in 1..Len(s) : s[k] = x

NoResult == [confidence |-> 0, codes |-> <<>>, status |-> "pending", aiEnhanced |-> FALSE]

NoLoop == [st |-> "none", q |-> 0, cur |-> 0, due |-> 0]

\* ------------------------------------------------- SmartFetch construction
SmartFetchConfig(c) ==
    [aiEnabled |-> c.aiEnabled,
     aiApiKey |-> c.aiApiKey \/ c.envKey,
     acceptThreshold |-> OrDefault(c.acceptThreshold, DefaultAcceptThreshold),
     reviewThreshold |-> OrDefault(c.reviewThreshold, DefaultReviewThreshold),
     aiThreshold |-> OrDefault(c.aiThreshold, DefaultAiThreshold),
     requestsPerMinute |-> OrDefault(c.requestsPerMinute, DefaultRequestsPerMinute)]

\* new EnhancedAIPostProcessor(cfg): enabled = (cfg.enabled !== false).
PostProcessor(enabled, threshold, rpm) ==
    [exists |-> TRUE,
     enabled |-> enabled,
     threshold |-> OrDefault(threshold, ProcessorThreshold),
     timeout |-> RequestTimeout,
     requestsPerMinute |-> OrDefault(rpm, QueueRequestsPerMinute)]

NoProcessor ==
    [exists |-> FALSE, enabled |-> FALSE, threshold |-> 0, timeout |-> 0,
     requestsPerMinute |-> 0]

InitializeAI(cf) ==
    IF cf.aiEnabled /\ cf.aiApiKey
    THEN PostProcessor(TRUE, Some(cf.aiThreshold), Some(cf.requestsPerMinute))
    ELSE IF cf.aiEnabled
         THEN PostProcessor(FALSE, Some(cf.aiThreshold), None)
         ELSE NoProcessor

isAIAvailable == config.aiEnabled /\ aiProcessor.exists

\* The processor an item goes through: SmartFetch's, or the one
\* enhancedExtractFromTranscript constructs for the call.
EnhancedProcessor == PostProcessor(TRUE, Some(EnhancedThreshold), Some(EnhancedRequestsPerMinute))

ProcessorOf(i) == IF inputs[i].path = "sf" THEN aiProcessor ELSE EnhancedProcessor

QueueOf(i) == IF inputs[i].path = "sf" THEN 0 ELSE i

Rpm(q) == IF q = 0 THEN aiProcessor.requestsPerMinute ELSE EnhancedProcessor.requestsPerMinute

\* ---------------------------------------------------------- pure functions
\* Mutant of determineStatus: the review branch returns a misspelt status.
determineStatusMisspelt(confidence) ==
    IF confidence >= config.acceptThreshold THEN "accepted"
    ELSE IF confidence >= config.reviewThreshold THEN "needs-review"
    ELSE "rejected"

\* Mutant of determineStatus: nothing is rejected.
determineStatusNoReject(confidence) ==
    IF confidence >= config.acceptThreshold THEN "accepted" ELSE "needs_review"

determineStatus(confidence) ==
    IF confidence >= config.acceptThreshold THEN "accepted"
    ELSE IF confidence >= config.reviewThreshold THEN "needs_review"
    ELSE "rejected"

shouldProcess(p, r) ==
    IF ~p.enabled THEN FALSE ELSE r.confidence < p.threshold

\* parseAIResponse: the fences are stripped, the text is parsed, the confidence is
\* checked; null is [ok |-> FALSE].
StripFence(resp) == [resp EXCEPT !.fence = "none"]

JsonParses(resp) == resp.fence = "none" /\ resp.json

\* Mutant of ValidConfidence: the range check is missing.
ValidConfidenceAnyNumber(resp) == resp.ctype = "number"

ValidConfidence(resp) == resp.ctype = "number" /\ resp.cval >= 0 /\ resp.cval <= 10

parseAIResponse(resp) ==
    LET clean == StripFence(resp) IN
    IF JsonParses(clean) /\ ValidConfidence(clean)
    THEN [ok |-> TRUE, confidence |-> clean.cval, validCodes |-> clean.validCodes]
    ELSE [ok |-> FALSE, confidence |-> 0, validCodes |-> <<>>]

RegexResult(i) ==
    [confidence |-> inputs[i].h, codes |-> inputs[i].codes,
     status |-> "none", aiEnhanced |-> FALSE]

\* Mutant of EnhancedResult: the secondary confidence is blended with the heuristic one.
EnhancedResultBlended(r, ai) ==
    [confidence |-> (r.confidence + ai.confidence) \div 2,
     codes |-> IF Len(ai.validCodes) > 0
               THEN SelectSeq(r.codes, LAMBDA code : Includes(ai.validCodes, code))
               ELSE r.codes,
     status |-> "none",
     aiEnhanced |-> TRUE]

\* Mutant of EnhancedResult: the codes the secondary scorer listed are taken as they are.
EnhancedResultListed(r, ai) ==
    [confidence |-> ai.confidence,
     codes |-> IF Len(ai.validCodes) > 0 THEN ai.validCodes ELSE r.codes,
     status |-> "none",
     aiEnhanced |-> TRUE]

EnhancedResult(r, ai) ==
    [confidence |-> ai.confidence,
     codes |-> IF Len(ai.validCodes) > 0
               THEN SelectSeq(r.codes, LAMBDA code : Includes(ai.validCodes, code))
               ELSE r.codes,
     status |-> "none",
     aiEnhanced |-> TRUE]

ErrorResult == [confidence |-> 0, codes |-> <<>>, status |-> "error", aiEnhanced |-> FALSE]

FailureEntry(i) ==
    [videoId |-> i, error |-> caught[i], confidence |-> inputs[i].h, retryCount |-> 0]


\* What the entry point returns for the final result `fin`: processTranscript adds
\* the status; enhancedExtractFromTranscript returns the processor's record as it is.
Returned(i, fin) ==
    IF inputs[i].path = "sf"
    THEN [fin EXCEPT !.status = determineStatus(fin.confidence)]
    ELSE fin

ItemDone(i, res) ==
    /\ pc' = [pc EXCEPT ![i] = "done"]
    /\ result' = [result EXCEPT ![i] = res]

\* ------------------------------------------------------- RateLimitedQueue
\* Mutant of ProcessGuard: the processing flag is not looked at.
ProcessGuardNoFlag(q, reqs) == Len(reqs) > 0

\* process() goes past its first line.
ProcessGuard(q, reqs) == ~processing[q] /\ Len(reqs) > 0

RecentWindow(q) == SelectSeq(recent[q], LAMBDA t : t > now - Minute)

AtLimit(q, kept) == Len(kept) >= Rpm(q)

\* now + waitTime
WaitUntil(kept) == SeqMin(kept) + Minute + RateBuffer

CallStarted(l, q, request) ==
    /\ loop' = [loop EXCEPT ![l] = [st |-> "inCall", q |-> q, cur |-> request,
                                    due |-> now + ProcessorOf(request).timeout]]
    /\ started' = Append(started, [item |-> request, q |-> q, at |-> now])

\* One pass of the while loop up to its first await, for loop l of queue q whose
\* requests are reqs.
Iterate(l, q, reqs) ==
    LET request == Head(reqs)
        kept == RecentWindow(q)
    IN /\ requests' = [requests EXCEPT ![q] = Tail(reqs)]
       /\ IF AtLimit(q, kept)
          THEN /\ recent' = [recent EXCEPT ![q] = kept]
               /\ loop' = [loop EXCEPT ![l] = [st |-> "rateWait", q |-> q,
                                               cur |-> request, due |-> WaitUntil(kept)]]
               /\ UNCHANGED started
          ELSE /\ recent' = [recent EXCEPT ![q] = Append(kept, now)]
               /\ CallStarted(l, q, request)

\* queue.add(fn, metadata) by item i: push, then process().
Add(i) ==
    LET q == QueueOf(i)
        reqs == Append(requests[q], i)
    IN IF ProcessGuard(q, reqs)
       THEN /\ processing' = [processing EXCEPT ![q] = TRUE]
            /\ Iterate(i, q, reqs)
       ELSE /\ requests' = [requests EXCEPT ![q] = reqs]
            /\ UNCHANGED <<processing, recent, loop, started>>

\* The rate-limit wait of loop l is over: the call starts without a second check.
RateWaitDone(l) ==
    /\ loop[l].st = "rateWait"
    /\ now >= loop[l].due
    /\ recent' = [recent EXCEPT ![loop[l].q] = Append(@, now)]
    /\ CallStarted(l, loop[l].q, loop[l].cur)
    /\ UNCHANGED <<others, cfgIn, config, aiProcessor, batch, inputs, pc, result, caught, snapshot,
                   requests, processing, logFile, now, settles>>

\* Mutant of Settle: a failed call ends the worker loop where it stands, with the
\* processing flag left set.
SettleFailureEndsLoop(l, err) ==
    LET i == loop[l].cur
        r == RegexResult(i)
        ai == parseAIResponse(inputs[i].resp)
    IN /\ loop' = [loop EXCEPT ![l] = IF err = "none"
                                       THEN [@ EXCEPT !.st = "delay", !.due = now + RequestDelay]
                                       ELSE NoLoop]
       /\ settles' = [settles EXCEPT ![i] = @ + 1]
       /\ IF err = "none" /\ ai.ok
          THEN /\ ItemDone(i, Returned(i, EnhancedResult(r, ai)))
               /\ UNCHANGED caught
          ELSE /\ pc' = [pc EXCEPT ![i] = "logRead"]
               /\ caught' = [caught EXCEPT ![i] = IF err = "none" THEN "parse" ELSE err]
               /\ UNCHANGED result
       /\ UNCHANGED <<others, cfgIn, config, aiProcessor, batch, inputs, snapshot,
                      requests, processing, recent, logFile, now, started>>

\* request.fn() of loop l settles with error err ("none": it returned the response
\* text); the worker resolves or rejects the add() promise and goes to its 100 ms
\* delay; the item's processResult continues in the same turn.
Settle(l, err) ==
    LET i == loop[l].cur
        r == RegexResult(i)
        ai == parseAIResponse(inputs[i].resp)
    IN /\ loop' = [loop EXCEPT ![l] = [@ EXCEPT !.st = "delay", !.due = now + RequestDelay]]
       /\ settles' = [settles EXCEPT ![i] = @ + 1]
       /\ IF err = "none" /\ ai.ok
          THEN /\ ItemDone(i, Returned(i, EnhancedResult(r, ai)))
               /\ UNCHANGED caught
          ELSE /\ pc' = [pc EXCEPT ![i] = "logRead"]
               /\ caught' = [caught EXCEPT ![i] = IF err = "none" THEN "parse" ELSE err]
               /\ UNCHANGED result
       /\ UNCHANGED <<others, cfgIn, config, aiProcessor, batch, inputs, snapshot,
                      requests, processing, recent, logFile, now, started>>

CallReturns(l) ==
    /\ loop[l].st = "inCall"
    /\ Settle(l, IF inputs[loop[l].cur].resp.kind = "throw" THEN "threw" ELSE "none")

\* makeOpenAIRequest's abort timer fires.
CallTimeout(l) ==
    /\ loop[l].st = "inCall"
    /\ now >= loop[l].due
    /\ Settle(l, "aborted")

\* Mutant of DelayDone: the loop ends after one request, whatever is queued.
DelayDoneOnePass(l) ==
    /\ loop[l].st = "delay"
    /\ now >= loop[l].due
    /\ processing' = [processing EXCEPT ![loop[l].q] = FALSE]
    /\ loop' = [loop EXCEPT ![l] = NoLoop]
    /\ UNCHANGED <<others, cfgIn, config, aiProcessor, batch, inputs, pc, result, caught, snapshot,
                   requests, recent, started, logFile, now, settles>>

\* The 100 ms delay of loop l is over: next pass, or the loop ends.
DelayDone(l) ==
    LET q == loop[l].q IN
    /\ loop[l].st = "delay"
    /\ now >= loop[l].due
    /\ IF Len(requests[q]) > 0
       THEN /\ Iterate(l, q, requests[q])
            /\ UNCHANGED processing
       ELSE /\ processing' = [processing EXCEPT ![q] = FALSE]
            /\ loop' = [loop EXCEPT ![l] = NoLoop]
            /\ UNCHANGED <<requests, recent, started>>
    /\ UNCHANGED <<others, cfgIn, config, aiProcessor, batch, inputs, pc, result, caught, snapshot,
                   logFile, now, settles>>

\* ---------------------------------------------------------- FailureTracker
\* logFailure: readFile completes (a missing file reads as no records).
LogRead(i) ==
    /\ pc[i] = "logRead"
    /\ snapshot' = [snapshot EXCEPT ![i] = logFile]
    /\ pc' = [pc EXCEPT ![i] = "logWrite"]
    /\ UNCHANGED <<others, cfgIn, config, aiProcessor, batch, inputs, result, caught,
                   requests, processing, recent, loop, logFile, now, started, settles>>

WrittenLog(i) == Append(snapshot[i], FailureEntry(i))

\* logFailure: writeFile completes; processResult returns the original result.
LogWrite(i) ==
    /\ pc[i] = "logWrite"
    /\ logFile' = WrittenLog(i)
    /\ ItemDone(i, Returned(i, RegexResult(i)))
    /\ UNCHANGED <<others, cfgIn, config, aiProcessor, batch, inputs, caught, snapshot,
                   requests, processing, recent, loop, now, started, settles>>

\* ------------------------------------------------------------ entry points
\* processResult(result, originalText, videoId) up to its first await.
ProcessResult(i) ==
    IF shouldProcess(ProcessorOf(i), RegexResult(i))
    THEN /\ Add(i)
         /\ pc' = [pc EXCEPT ![i] = "queued"]
         /\ UNCHANGED result
    ELSE /\ ItemDone(i, Returned(i, RegexResult(i)))
         /\ UNCHANGED <<requests, processing, recent, loop, started>>

\* The items of a run are handed to the entry point in index order.
Arrives(i) ==
    /\ i \in batch
    /\ pc[i] = "new"
    /\ \A j \in batch : j < i => pc[j] # "new"

\* The escalation condition of processTranscript.
NeedsEscalation(i) == isAIAvailable /\ RegexResult(i).confidence < config.aiThreshold

\* SmartFetch.processTranscript(transcript, videoData) up to its first await.
ProcessTranscript(i) ==
    /\ Arrives(i)
    /\ inputs[i].path = "sf"
    /\ IF NeedsEscalation(i)
       THEN IF inputs[i].hasVideoData
            THEN ProcessResult(i)
            ELSE /\ ItemDone(i, ErrorResult)
                 /\ UNCHANGED <<requests, processing, recent, loop, started>>
       ELSE /\ ItemDone(i, Returned(i, RegexResult(i)))
            /\ UNCHANGED <<requests, processing, recent, loop, started>>
    /\ UNCHANGED <<others, cfgIn, config, aiProcessor, batch, inputs, caught, snapshot,
                   logFile, now, settles>>

\* enhancedExtractFromTranscript(transcriptLines, videoId) up to its first await.
EnhancedExtract(i) ==
    /\ Arrives(i)
    /\ inputs[i].path = "ee"
    /\ IF RegexResult(i).confidence < EnhancedThreshold /\ cfgIn.envKey
       THEN ProcessResult(i)
       ELSE /\ ItemDone(i, RegexResult(i))
            /\ UNCHANGED <<requests, processing, recent, loop, started>>
    /\ UNCHANGED <<others, cfgIn, config, aiProcessor, batch, inputs, caught, snapshot,
                   logFile, now, settles>>

\* -------------------------------------------------------------------- time
Dues == {loop[l].due : l \in {x \in Items : loop[x].st # "none"}}

\* Time passes: to the next pending timer or, with no timer pending and an item
\* yet to arrive, by half a minute.
Tick ==
    /\ IF Dues # {}
       THEN now < SetMin(Dues) /\ now' = SetMin(Dues)
       ELSE /\ \E i \in batch : pc[i] = "new"
            /\ now + HalfMinute <= MaxSteps * HalfMinute
            /\ now' = now + HalfMinute
    /\ UNCHANGED <<others, cfgIn, config, aiProcessor, batch, inputs, pc, result, caught, snapshot,
                   requests, processing, recent, loop, logFile, started, settles>>

\* ------------------------------------------------------------------- inputs
Response(kind, json, fence, ctype, cval, validCodes) ==
    [kind |-> kind, json |-> json, fence |-> fence, ctype |-> ctype, cval |-> cval,
     validCodes |-> validCodes]

Throws == Response("throw", FALSE, "none", "undefined", 0, <<>>)

Answer(cval, validCodes) == Response("text", TRUE, "none", "number", cval, validCodes)

ResponsesOne ==
    {Throws,
     Response("text", FALSE, "none", "undefined", 0, <<>>),
     Response("text", TRUE, "none", "undefined", 0, <<>>),
     Response("text", TRUE, "none", "string", 8, <<>>),
     Response("text", TRUE, "json", "number", 8, <<"A">>),
     Response("text", FALSE, "plain", "number", 8, <<>>),
     Answer(0 - 1, <<>>), Answer(11, <<>>), Answer(0, <<>>), Answer(2, <<"Z">>),
     Answer(8, <<>>), Answer(10, <<"B">>)}

OldRecord == [videoId |-> 0, error |-> "threw", confidence |-> 0, retryCount |-> 0]

Input(path, h, codes, hasVideoData, resp) ==
    [path |-> path, h |-> h, codes |-> codes, hasVideoData |-> hasVideoData, resp |-> resp]

IdleInput == Input("sf", 10, <<>>, TRUE, Throws)

\* What extraction gives for a text without codes, links and discounts: no codes,
\* and the confidence scoreMatch returns for nothing, 0.
EmptyHeuristic == [h |-> 0, codes |-> <<>>]

InputsOne ==
    {Input("sf", hc.h, hc.codes, vd, resp) :
        hc \in [h : {2, 4, 5, 7}, codes : {<<"A", "B">>}] \cup {EmptyHeuristic},
        vd \in BOOLEAN, resp \in ResponsesOne}

ConfigsOne ==
    [aiEnabled : BOOLEAN, aiApiKey : BOOLEAN, envKey : {FALSE},
     acceptThreshold : {None, Some(0), Some(8)},
     reviewThreshold : {None, Some(0)},
     aiThreshold : {None, Some(0), Some(5)},
     requestsPerMinute : {Some(MaxRPM)}]

InputsBatch(paths) ==
    {Input(path, 2, <<"A">>, TRUE, resp) : path \in paths, resp \in {Throws, Answer(8, <<>>)}}

ConfigsBatch ==
    [aiEnabled : {TRUE}, aiApiKey : {TRUE}, envKey : {TRUE},
     acceptThreshold : {None}, reviewThreshold : {None}, aiThreshold : {None},
     requestsPerMinute : {Some(r) : r \in 1..MaxRPM}]

\* The state after new SmartFetch(c), with the items of the run not yet started.
Constructed(c, its, ins, file) ==
    /\ cfgIn = c
    /\ config = [SmartFetchConfig(c) EXCEPT
                   !.aiEnabled = InitializeAI(SmartFetchConfig(c)).exists]
    /\ aiProcessor = InitializeAI(SmartFetchConfig(c))
    /\ batch = its
    /\ inputs = ins
    /\ pc = [i \in Items |-> "new"]
    /\ result = [i \in Items |-> NoResult]
    /\ caught = [i \in Items |-> "none"]
    /\ snapshot = [i \in Items |-> <<>>]
    /\ requests = [q \in Queues |-> <<>>]
    /\ processing = [q \in Queues |-> FALSE]
    /\ recent = [q \in Queues |-> <<>>]
    /\ loop = [i \in Items |-> NoLoop]
    /\ logFile = file
    /\ now = 0
    /\ started = <<>>
    /\ settles = [i \in Items |-> 0]

\* A run with one source item, over every configuration and scorer answer.
InitOne ==
    \E c \in ConfigsOne, x \in InputsOne, file \in {<<OldRecord>>} :
        /\ Constructed(c, {1}, [i \in Items |-> IF i = 1 THEN x ELSE IdleInput], file)
        /\ OthersIdle

\* A batch of items whose escalations are in flight together, all through
\* SmartFetch.processTranscript.
InitBatch ==
    \E c \in ConfigsBatch, ins \in [Items -> InputsBatch({"sf"})] :
        /\ Constructed(c, Items, ins, <<OldRecord>>)
        /\ OthersIdle

\* A batch whose items come through either entry point.
InitMixed ==
    \E c \in ConfigsBatch, ins \in [Items -> InputsBatch({"sf", "ee"})] :
        /\ Constructed(c, Items, ins, <<OldRecord>>)
        /\ OthersIdle

NextOne ==
    \/ \E i \in Items : ProcessTranscript(i)
    \/ \E l \in Items : CallReturns(l)
    \/ \E l \in Items : CallTimeout(l)
    \/ \E l \in Items : DelayDone(l)
    \/ \E i \in Items : LogRead(i)
    \/ \E i \in Items : LogWrite(i)
    \/ Tick

Next ==
    \/ \E i \in Items : ProcessTranscript(i)
    \/ \E l \in Items : RateWaitDone(l)
    \/ \E l \in Items : CallReturns(l)
    \/ \E l \in Items : CallTimeout(l)
    \/ \E l \in Items : DelayDone(l)
    \/ \E i \in Items : LogRead(i)
    \/ \E i \in Items : LogWrite(i)
    \/ Tick

NextMixed ==
    \/ \E i \in Items : ProcessTranscript(i)
    \/ \E i \in Items : EnhancedExtract(i)
    \/ \E l \in Items : RateWaitDone(l)
    \/ \E l \in Items : CallReturns(l)
    \/ \E l \in Items : CallTimeout(l)
    \/ \E l \in Items : DelayDone(l)
    \/ \E i \in Items : LogRead(i)
    \/ \E i \in Items : LogWrite(i)
    \/ Tick

\* One source item through SmartFetch.processTranscript.
SpecOne == InitOne /\ [][NextOne]_vars

\* A batch through SmartFetch.processTranscript: one processor, one queue, one log.
Spec == InitBatch /\ [][Next]_vars

\* A batch through both entry points.
SpecMixed == InitMixed /\ [][NextMixed]_vars

\* The batch specification with the scheduling the event loop guarantees: pending
\* timers fire, a started call settles (it returns, throws or is aborted at its
\* timeout), and pending file operations complete.
SpecFair ==
    /\ Spec
    /\ WF_vars(Tick)
    /\ WF_vars(\E l \in Items : RateWaitDone(l))
    /\ WF_vars(\E l \in Items : CallReturns(l) \/ CallTimeout(l))
    /\ WF_vars(\E l \in Items : DelayDone(l))
    /\ WF_vars(\E i \in Items : LogRead(i) \/ LogWrite(i))

\* ===================================================================== claims
\* The threshold mapping of the specification, for thresholds accept and review.
ThresholdStatus(x, accept, review) ==
    IF x >= accept THEN "accepted"
    ELSE IF x >= review THEN "needs_review"
    ELSE "rejected"

\* The result the heuristic path alone produces for item i.
HeuristicOutcome(i) ==
    [confidence |-> inputs[i].h,
     codes |-> inputs[i].codes,
     status |-> ThresholdStatus(inputs[i].h, config.acceptThreshold, config.reviewThreshold),
     aiEnhanced |-> FALSE]

\* The secondary-scorer calls started for item i.
CallsOf(i) == Cardinality({k \in 1..Len(started) : started[k].item = i})

\* A configured threshold: the value given, the default when none is given.
Configured(opt, dflt) == IF opt = None THEN dflt ELSE opt[1]

\* The text is JSON as it stands.
IsJson(resp) == resp.kind = "text" /\ resp.json /\ resp.fence = "none"

\* The text is JSON once a surrounding Markdown fence is removed.
IsFencedJson(resp) == resp.kind = "text" /\ resp.json

NumericInRange(resp) == resp.ctype = "number" /\ resp.cval >= 0 /\ resp.cval <= 10

IsPrefix(s, t) == Len(s) <= Len(t) /\ \A k \in 1..Len(s) : t[k] = s[k]

\* C1: whenever the scorer call of an escalated item throws or times out, the item's
\* final result is the heuristic one (confidence, codes, status, not enhanced) and
\* the step that completes it appends one record for the item to the failure log.
C1_FallbackAndRecord ==
    [][\A i \in Items :
          (pc[i] = "logWrite" /\ pc'[i] = "done" /\ caught[i] \in {"threw", "aborted"})
          => /\ result'[i] = HeuristicOutcome(i)
             /\ logFile' = Append(logFile, FailureEntry(i))]_vars

\* C2: every write of the failure log appends: the records present before the write
\* are all still there, in place, and exactly one record is new.
C2_LogOnlyAppends ==
    [][logFile' # logFile
       => IsPrefix(logFile, logFile') /\ Len(logFile') = Len(logFile) + 1]_vars

\* C3: every request handed to the queue is eventually executed, and its promise is
\* settled exactly once; it is never executed or settled twice.
C3_QueuedIsSettled ==
    \A i \in Items :
        /\ [](CallsOf(i) <= 1 /\ settles[i] <= 1)
        /\ (pc[i] = "queued") ~> (CallsOf(i) = 1 /\ settles[i] = 1 /\ pc[i] # "queued")

\* C3 witness: a request that had to wait out the rate limit was executed and settled.
C3_Witness ==
    \E i \in Items :
        /\ settles[i] = 1
        /\ \E k \in 1..Len(started) :
              started[k].item = i /\ started[k].at >= Minute + RateBuffer

\* A step in which the scorer call of item i starts.
StartsCallOf(i) ==
    /\ Next
    /\ Len(started') = Len(started) + 1
    /\ started'[Len(started')].item = i

\* Item i waits at the head of a queue whose loop has another item's call in flight
\* while the rate limit would admit a call.
WaitsBehindCall(i) ==
    \E l \in Items :
        /\ loop[l].st = "inCall"
        /\ loop[l].cur # i
        /\ Len(requests[loop[l].q]) > 0
        /\ Head(requests[loop[l].q]) = i
        /\ ~AtLimit(loop[l].q, RecentWindow(loop[l].q))

Enhanced(i) == pc[i] = "done" /\ CallsOf(i) = 1 /\ caught[i] = "none"

\* C5: when an escalation succeeds with parsed confidence c, the final confidence is
\* c, the status is the threshold mapping of c and the result is flagged enhanced;
\* heuristic 0.2 and secondary 0.8 under the default thresholds give 0.8, accepted.
C5_Replaced ==
    \A i \in batch :
        Enhanced(i)
        => /\ IsFencedJson(inputs[i].resp) /\ NumericInRange(inputs[i].resp)
           /\ result[i].confidence = inputs[i].resp.cval
           /\ result[i].status = ThresholdStatus(inputs[i].resp.cval,
                                                 config.acceptThreshold,
                                                 config.reviewThreshold)
           /\ result[i].aiEnhanced
           /\ (/\ inputs[i].h = 2
               /\ inputs[i].resp.cval = 8
               /\ cfgIn.acceptThreshold = None
               /\ cfgIn.reviewThreshold = None)
              => (result[i].confidence = 8 /\ result[i].status = "accepted")

\* C5 witness: the scenario of the specification has run.
C5_Witness ==
    \E i \in batch :
        /\ Enhanced(i)
        /\ inputs[i].h = 2
        /\ inputs[i].resp.cval = 8
        /\ cfgIn.acceptThreshold = None
        /\ cfgIn.reviewThreshold = None
        /\ result[i].status = "accepted"

\* A secondary scorer is configured and available.
ScorerAvailable == cfgIn.aiEnabled /\ (cfgIn.aiApiKey \/ cfgIn.envKey)

\* C6: the scorer is invoked for an item if and only if its heuristic confidence is
\* strictly below the configured aiThreshold and a scorer is configured and available.
C6_InvokedIff ==
    \A i \in batch :
        (pc[i] = "done" /\ inputs[i].hasVideoData)
        => (CallsOf(i) >= 1
            <=> (/\ inputs[i].h < Configured(cfgIn.aiThreshold, DefaultAiThreshold)
                 /\ ScorerAvailable))

Throwing(i) ==
    /\ ~inputs[i].hasVideoData
    /\ config.aiEnabled
    /\ aiProcessor.exists
    /\ inputs[i].h < config.aiThreshold

C8_ConfiguredThresholds ==
    \A i \in batch :
        LET accept == Configured(cfgIn.acceptThreshold, DefaultAcceptThreshold)
            review == Configured(cfgIn.reviewThreshold, DefaultReviewThreshold)
        IN (pc[i] = "done" /\ result[i].status # "error" /\ review <= accept)
           => result[i].status = ThresholdStatus(result[i].confidence, accept, review)

\* C9 (as stated): a response that is not valid JSON, or whose confidence is missing,
\* non-numeric or outside [0,1], leaves the heuristic result as the final result.
C9_NotJsonFallsBack ==
    \A i \in batch :
        (/\ pc[i] = "done"
         /\ CallsOf(i) = 1
         /\ inputs[i].resp.kind = "text"
         /\ (~IsJson(inputs[i].resp) \/ ~NumericInRange(inputs[i].resp)))
        => result[i] = HeuristicOutcome(i)

\* C9 (amended): a response that is not valid JSON even with a surrounding Markdown
\* code fence removed, or whose confidence is missing, non-numeric or outside [0,1],
\* leaves the heuristic result as the final result.
C9_ParseFailureFallsBack ==
    \A i \in batch :
        (/\ pc[i] = "done"
         /\ CallsOf(i) = 1
         /\ inputs[i].resp.kind = "text"
         /\ (~IsFencedJson(inputs[i].resp) \/ ~NumericInRange(inputs[i].resp)))
        => result[i] = HeuristicOutcome(i)

\* C9 witness: an out-of-range confidence was answered and the heuristic result stood.
C9_Witness ==
    \E i \in batch :
        /\ pc[i] = "done"
        /\ caught[i] = "parse"
        /\ inputs[i].resp.ctype = "number"
        /\ inputs[i].resp.cval > 10
        /\ result[i] = HeuristicOutcome(i)

\* The scorer calls started in the 60 seconds up to the start of call k.
InWindow(k) ==
    {j \in 1..Len(started) :
        started[k].at - Minute < started[j].at /\ started[j].at <= started[k].at}

\* C10: in any 60-second window at most requestsPerMinute scorer calls are started,
\* requestsPerMinute being the budget of the processor that starts the call.
C10_BudgetRespected ==
    \A k \in 1..Len(started) :
        Cardinality(InWindow(k)) <= ProcessorOf(started[k].item).requestsPerMinute

\* ============================================================ the sink
\* syncToSheet (src/fetchTranscript.js) and its caller batchSyncToSheet
\* (src/index.js), which starts the calls of one sheet batch together and awaits
\* them with Promise.all.
SHEET_BATCH_SIZE == 10
SourceIds == {"a", "b"}

\* The escalation controller before any item is processed.
EscalationIdle ==
    Constructed(CHOOSE c \in ConfigsBatch : TRUE, {}, [i \in Items |-> IdleInput], <<>>)

\* const alreadyExists = rows.some(row => row.get('sourceId') === postData.sourceId)
alreadyExists(w) == Includes(rows, sync[w].sourceId)

SyncDone(w, outcome) == sync' = [sync EXCEPT ![w].pc = "done", ![w].outcome = outcome]

\* syncToSheet(postData) up to its first await: the input validation.
SyncToSheet(w) ==
    /\ sync[w].pc = "called"
    /\ IF sync[w].sourceId = ""
       THEN SyncDone(w, "threw")
       ELSE sync' = [sync EXCEPT ![w].pc = "getRows"]
    /\ UNCHANGED <<rows, exceptSink>>

\* await sheet.getRows() returns: the existence check on the rows it returned.
GetRows(w) ==
    /\ sync[w].pc = "getRows"
    /\ IF alreadyExists(w)
       THEN SyncDone(w, "skipped")
       ELSE sync' = [sync EXCEPT ![w].pc = "addRow"]
    /\ UNCHANGED <<rows, exceptSink>>

\* await sheet.addRow(rowData) returns.
AddRow(w) ==
    /\ sync[w].pc = "addRow"
    /\ rows' = Append(rows, sync[w].sourceId)
    /\ SyncDone(w, "added")
    /\ UNCHANGED exceptSink

\* A call to the sheet rejects; syncToSheet rethrows, batchSyncToSheet records it.
SheetThrows(w) ==
    /\ sync[w].pc \in {"getRows", "addRow"}
    /\ SyncDone(w, "threw")
    /\ UNCHANGED <<rows, exceptSink>>

\* One sheet batch handed to batchSyncToSheet, on a sheet that may hold rows.
InitSink ==
    /\ EscalationIdle
    /\ ScoreIdle
    /\ ExtractIdle
    /\ FilterIdle
    /\ RetryIdle
    /\ OverlayIdle
    /\ QueueIdle
    /\ ToolsIdle
    /\ MaxWriters <= SHEET_BATCH_SIZE
    /\ rows \in {<<>>, <<"a">>}
    /\ sync \in [Writers -> [sourceId : SourceIds \cup {""}, pc : {"called"}, outcome : {"none"}]]

NextSink ==
    \/ \E w \in Writers : SyncToSheet(w)
    \/ \E w \in Writers : GetRows(w)
    \/ \E w \in Writers : AddRow(w)
    \/ \E w \in Writers : SheetThrows(w)

SpecSink == InitSink /\ [][NextSink]_vars

RowsOf(id) == Cardinality({k \in 1..Len(rows) : rows[k] = id})

\* C11: whatever the interleaving of the syncToSheet calls, the sheet holds at
\* most one row for any sourceId.
C11_AtMostOneRow == \A id \in SourceIds : RowsOf(id) <= 1

\* ------------------------------------------------------------ C12
\* The batch specification of SmartFetch.processBatch: besides the event loop's
\* scheduling, every item of the batch is started (its stagger timer fires).
SpecBatchFair ==
    /\ SpecFair
    /\ WF_vars(\E i \in Items : ProcessTranscript(i))

\* The result an accepted answer of the scorer produces for item i.
EnhancedOutcome(i) ==
    [confidence |-> inputs[i].resp.cval,
     codes |-> IF Len(inputs[i].resp.validCodes) > 0
               THEN SelectSeq(inputs[i].codes,
                              LAMBDA code : Includes(inputs[i].resp.validCodes, code))
               ELSE inputs[i].codes,
     status |-> ThresholdStatus(inputs[i].resp.cval, config.acceptThreshold,
                                config.reviewThreshold),
     aiEnhanced |-> TRUE]

\* The outcome of item i as a function of the item alone: its own heuristic result
\* and the fate of its own scorer call.
OwnOutcome(i) ==
    IF caught[i] = "none" /\ CallsOf(i) = 1 THEN EnhancedOutcome(i) ELSE HeuristicOutcome(i)

One == 100800000

Pct(n) == n * (One \div 100)
Min(a, b) == IF a < b THEN a ELSE b
Max(a, b) == IF a > b THEN a ELSE b

RECURSIVE SumOver(_, _)
SumOver(f(_), S) ==
    IF S = {} THEN 0
    ELSE LET x == CHOOSE y \in S : TRUE IN f(x) + SumOver(f, S \ {x})

MaxOver(f(_), S) == CHOOSE m \in {f(x) : x \in S} : \A x \in S : f(x) <= m

\* ------------------------------------------------- regular expressions
Digit == {"0", "1", "2", "3", "4", "5", "6", "7", "8", "9"}

\* /^\d+$/
AllDigits(code) == Len(code) > 0 /\ \A k \in 1..Len(code) : code[k] \in Digit

UpperCase ==
    <<"A", "B", "C", "D", "E", "F", "G", "H", "I", "J", "K", "L", "M",
      "N", "O", "P", "Q", "R", "S", "T", "U", "V", "W", "X", "Y", "Z">>

LowerCase ==
    <<"a", "b", "c", "d", "e", "f", "g", "h", "i", "j", "k", "l", "m",
      "n", "o", "p", "q", "r", "s", "t", "u", "v", "w", "x", "y", "z">>

Letter == {UpperCase[k] : k \in 1..Len(UpperCase)}

\* String.prototype.toUpperCase
toUpperCase(code) ==
    [k \in 1..Len(code) |->
        IF \E j \in 1..Len(LowerCase) : LowerCase[j] = code[k]
        THEN UpperCase[CHOOSE j \in 1..Len(LowerCase) : LowerCase[j] = code[k]]
        ELSE code[k]]

\* /^[A-Z]+$/
AllLetters(code) == Len(code) > 0 /\ \A k \in 1..Len(code) : code[k] \in Letter

\* /\d/ and /[A-Z]/
hasNumbers(code) == \E k \in 1..Len(code) : code[k] \in Digit
hasLetters(code) == \E k \in 1..Len(code) : code[k] \in Letter

\* /^(.)\1+$/
RepeatedCharacter(code) == Len(code) >= 2 /\ \A k \in 1..Len(code) : code[k] = code[1]

Rest(code, k) == SubSeq(code, k + 1, Len(code))

\* /^(w1|w2|...)\d+$/ and /^(w1|w2|...)\d*$/
WordThenDigits(code, words, atLeast) ==
    \E w \in words :
        /\ Len(code) >= Len(w) + atLeast
        /\ SubSeq(code, 1, Len(w)) = w
        /\ (Len(code) > Len(w) => AllDigits(Rest(code, Len(w))))

\* /^[A-Z]{2,6}\d{1,4}$/
LettersThenDigits(code) ==
    \E k \in 2..6 :
        /\ Len(code) - k \in 1..4
        /\ AllLetters(SubSeq(code, 1, k))
        /\ AllDigits(Rest(code, k))

\* /^(w1|w2|...)\w+$/
WordThenMore(code, words) ==
    \E w \in words : Len(code) > Len(w) /\ SubSeq(code, 1, Len(w)) = w

\* code.substring(0, 3)
Prefix(code) == SubSeq(code, 1, Min(3, Len(code)))

wSAVE == <<"S", "A", "V", "E">>
wGET == <<"G", "E", "T">>
wNEW == <<"N", "E", "W">>
wFIRST == <<"F", "I", "R", "S", "T">>
wWELCOME == <<"W", "E", "L", "C", "O", "M", "E">>
wPROMO == <<"P", "R", "O", "M", "O">>
wDEAL == <<"D", "E", "A", "L">>
wOFF == <<"O", "F", "F">>
wTECH == <<"T", "E", "C", "H">>
wGAME == <<"G", "A", "M", "E">>
wREVIEW == <<"R", "E", "V", "I", "E", "W">>
wVIDEO == <<"V", "I", "D", "E", "O">>
wTEST == <<"T", "E", "S", "T">>
wDEMO == <<"D", "E", "M", "O">>
wEXAMPLE == <<"E", "X", "A", "M", "P", "L", "E">>
wSAMPLE == <<"S", "A", "M", "P", "L", "E">>
wSUPER == <<"S", "U", "P", "E", "R">>

\* The words of the falsePositives list that are codes of this model.
falsePositives == {wGET, wNEW, wOFF, wFIRST, wSUPER}

\* ------------------------------------------------------- link shapes
\* /\b(deal|discount|promo|coupon|offer|sale|ref=|utm_|aff)/i, and the
\* promotionalLinks test of part_007, on the links of this model.
PromotionalLink(link) == link \in {"https://example.com/deal"}

\* /\b(shop|store|buy|order|checkout|cart|product)\b/i or /\.(com|store|shop)/
CommercialLink(link) == link \in {"https://example.com/deal", "https://shop.example.com/item"}

\* /\b(deal|discount|promo|coupon|offer|sale|shop|store)\b/i
CoherentLink(link) == link \in {"https://example.com/deal", "https://shop.example.com/item"}

\* link.toLowerCase().includes(brand.toLowerCase())
LinkMentions(link, brand) == <<link, brand>> \in {<<"https://nord.example.org", "nord">>}

\* --------------------------------------------------- src/scoreMatch.js
youtubePromoPatterns ==
    {"sponsored by", "thanks to for sponsoring", "use my code", "exclusive code",
     "special offer", "link description"}

sponsorSegmentPatterns == {"but first", "huge thanks", "check out link description"}

\* In twentieths.
calculateYouTubeContextBoost(code, rawText, sponsorBrands) ==
    Min(3 * Cardinality({brand \in sponsorBrands : <<brand, code>> \in rawText.near})
        + Cardinality(rawText.phrases \cap youtubePromoPatterns),
        6)

\* In twentieths.
calculateYouTubePatternBoost(code, videoMetadata) ==
    (IF code \in videoMetadata.channelCodes THEN 2 ELSE 0)
    + (IF videoMetadata.category \in {"Science & Technology", "Gaming", "Education"}
       THEN 1 ELSE 0)

calculateYouTubeBonuses(codes, rawText, videoMetadata) ==
    Min((IF Cardinality({Prefix(code) : code \in codes}) >= 2 THEN Pct(5) ELSE 0)
        + (IF videoMetadata.subscriberCount > 100000 THEN Pct(3) ELSE 0),
        Pct(8))

calculateYouTubeCoherence(codes, rawText, videoMetadata) ==
    Min(Pct(2) * Cardinality(rawText.phrases \cap sponsorSegmentPatterns), Pct(7))

\* The number of entries of the list `suspicious`.
detectYouTubeSuspiciousPatterns(codes, rawText) ==
    (IF Cardinality(codes) > 3 /\ Cardinality({Prefix(code) : code \in codes}) = 1
     THEN 1 ELSE 0)
    + Cardinality({code \in codes : code \notin rawText.codes})

\* In twentieths.
assessYouTubeCodeQuality(code, rawText, videoMetadata) ==
    IF Len(code) = 0 THEN 0
    ELSE LET length == IF Len(code) >= 4 /\ Len(code) <= 10 THEN 5
                       ELSE IF Len(code) = 3 \/ Len(code) <= 12 THEN 2
                       ELSE 0
             pattern == IF hasNumbers(code) /\ hasLetters(code) THEN 4
                        ELSE IF hasNumbers(code) \/ hasLetters(code) THEN 2
                        ELSE 0
             youtubePatterns ==
                 (IF WordThenDigits(code, {wSAVE, wGET, wNEW, wFIRST, wWELCOME, wPROMO,
                                           wDEAL, wOFF}, 1) THEN 3 ELSE 0)
                 + (IF LettersThenDigits(code) THEN 3 ELSE 0)
                 + (IF WordThenMore(code, {wTECH, wGAME, wREVIEW, wVIDEO}) THEN 3 ELSE 0)
             context == IF code \in rawText.keyword THEN 2 ELSE 0
             quality == 8 + length + pattern + youtubePatterns + context
                        - (IF code \in falsePositives THEN 8 ELSE 0)
                        - (IF RepeatedCharacter(code) THEN 10 ELSE 0)
         IN Max(0, Min(quality, 20))

\* codes.filter(code => code.length < 4 || code.length > 15 || ...)
suspiciousCodes(codes) ==
    {code \in codes :
        \/ Len(code) < 4 \/ Len(code) > 15
        \/ AllDigits(code)
        \/ (AllLetters(code) /\ Len(code) <= 3)
        \/ RepeatedCharacter(code)}

\* codeConfidence[code] || 0.3, in twentieths.
baseConfidence(c, code) ==
    IF code \in DOMAIN c.codeConfidence /\ c.codeConfidence[code] # 0
    THEN c.codeConfidence[code] ELSE 6

scoreMatch(c) ==
    LET n == Cardinality(c.codes)
        enhancedConfidence(code) ==
            Min(20, baseConfidence(c, code)
                    + calculateYouTubeContextBoost(code, c.rawText, c.sponsorBrands)
                    + calculateYouTubePatternBoost(code, c.videoMetadata))
        quality(code) == assessYouTubeCodeQuality(code, c.rawText, c.videoMetadata)
        codeScore ==
            IF DOMAIN c.codeConfidence # {}
            THEN 13 * (3 * n * MaxOver(enhancedConfidence, c.codes)
                       + SumOver(enhancedConfidence, c.codes)) * (One \div (1600 * n))
                 + calculateYouTubeBonuses(c.codes, c.rawText, c.videoMetadata)
            ELSE 11 * SumOver(quality, c.codes) * (One \div (400 * n))
                 + (IF n >= 2 THEN Min(Pct(10), n * Pct(2)) ELSE 0)
        discounts == c.percent_off # {} \/ c.flat_discount # {}
        maxDiscount == CHOOSE d \in c.percent_off : \A e \in c.percent_off : e <= d
        sponsorScore ==
            (IF c.sponsorBrands # {}
             THEN Min(Pct(15), Cardinality(c.sponsorBrands) * Pct(5)) ELSE 0)
            + (IF c.percent_off # {} THEN Min(maxDiscount, 50) * (One \div 500) ELSE 0)
            + (IF c.flat_discount # {} THEN Pct(5) ELSE 0)
        sponsorLinks ==
            {link \in c.links :
                \/ \E brand \in c.sponsorBrands : LinkMentions(link, brand)
                \/ PromotionalLink(link)}
        linkScore ==
            IF c.links = {} THEN 0 ELSE IF sponsorLinks # {} THEN Pct(10) ELSE Pct(3)
        coherenceBonus ==
            (IF n > 0 /\ discounts /\ c.sponsorBrands # {} THEN Pct(8)
             ELSE IF n > 0 /\ discounts THEN Pct(5)
             ELSE 0)
            + calculateYouTubeCoherence(c.codes, c.rawText, c.videoMetadata)
        penalties ==
            IF n = 0 THEN 0
            ELSE Min(Pct(15), detectYouTubeSuspiciousPatterns(c.codes, c.rawText) * Pct(5))
                 + Min(Pct(10), Cardinality(suspiciousCodes(c.codes)) * Pct(3))
        score ==
            (IF n > 0 THEN Min(codeScore, Pct(65)) ELSE 0)
            + Min(sponsorScore, Pct(20))
            + Min(linkScore, Pct(10))
            + Min(coherenceBonus, Pct(15))
            - penalties
    IN Max(0, Min(score, One))

\* ------------------------------ src/unnamed/part_007 (an earlier scoreMatch.js)
\* In twentieths.
assessCodeQuality(code) ==
    IF Len(code) = 0 THEN 0
    ELSE LET length == IF Len(code) >= 4 /\ Len(code) <= 8 THEN 4
                       ELSE IF Len(code) = 3 \/ Len(code) = 9 THEN 2
                       ELSE 0
             pattern == IF hasNumbers(code) /\ hasLetters(code) THEN 4
                        ELSE IF hasNumbers(code) \/ hasLetters(code) THEN 2
                        ELSE 0
             quality ==
                 10 + length + pattern
                 + (IF WordThenDigits(code, {wSAVE, wGET, wNEW, wFIRST, wWELCOME, wPROMO,
                                             wDEAL}, 1) THEN 2 ELSE 0)
                 - (IF WordThenDigits(code, {wTEST, wDEMO, wEXAMPLE, wSAMPLE}, 0)
                    THEN 6 ELSE 0)
                 - (IF RepeatedCharacter(code) THEN 8 ELSE 0)
         IN Max(0, Min(quality, 20))

\* codes.filter(code => code.length < 4 || code.length > 10 || ...)
suspiciousCodes007(codes) ==
    {code \in codes :
        \/ Len(code) < 4 \/ Len(code) > 10
        \/ AllDigits(code)
        \/ (AllLetters(code) /\ Len(code) <= 3)
        \/ RepeatedCharacter(code)}

\* scoreMatch of part_007.
scoreMatch007(c) ==
    LET n == Cardinality(c.codes)
        confidenceValue(code) == baseConfidence(c, code)
        highConfCodes ==
            {code \in c.codes :
                code \in DOMAIN c.codeConfidence /\ c.codeConfidence[code] >= 16}
        codeScore ==
            IF DOMAIN c.codeConfidence # {}
            THEN 7 * (7 * n * MaxOver(confidenceValue, c.codes)
                      + 3 * SumOver(confidenceValue, c.codes)) * (One \div (2000 * n))
                 + (IF Cardinality(highConfCodes) >= 2
                    THEN Min(Pct(10), Cardinality(highConfCodes) * Pct(3)) ELSE 0)
            ELSE 3 * SumOver(assessCodeQuality, c.codes) * (One \div (100 * n))
                 + (IF n >= 2 THEN Min(Pct(10), n * (One \div 40)) ELSE 0)
        discounts == c.percent_off # {} \/ c.flat_discount # {}
        maxDiscount == CHOOSE d \in c.percent_off : \A e \in c.percent_off : e <= d
        contextScore ==
            (IF c.percent_off # {} THEN 3 * Min(maxDiscount, 50) * (One \div 1250) ELSE 0)
            + (IF c.flat_discount # {} THEN Pct(8) ELSE 0)
        linkScore ==
            IF \E link \in c.links : PromotionalLink(link) THEN Pct(15)
            ELSE IF \E link \in c.links : CommercialLink(link) THEN Pct(8)
            ELSE IF c.links # {} THEN Pct(4)
            ELSE 0
        coherenceBonus ==
            (IF n > 0 /\ discounts THEN Pct(5) ELSE 0)
            + (IF n > 0 /\ \E link \in c.links : CoherentLink(link) THEN Pct(5) ELSE 0)
        penalties ==
            IF n = 0 THEN 0
            ELSE Min(Pct(10), Cardinality(suspiciousCodes007(c.codes)) * Pct(3))
                 + (IF n > 5 THEN Min(Pct(5), (n - 5) * Pct(1)) ELSE 0)
        score ==
            (IF n > 0 THEN Min(codeScore, Pct(70)) ELSE 0)
            + Min(contextScore, Pct(20))
            + Min(linkScore, Pct(15))
            + Min(coherenceBonus, Pct(10))
            - penalties
    IN Max(0, Min(score, One))

\* The scorer in use.
Score(c) == IF scorer = "scoreMatch.js" THEN scoreMatch(c) ELSE scoreMatch007(c)

\* --------------------------------------------------------- candidate sets
MaxCodes == 8

\* Codes of one shape ([A-Z]{2,6}\d{1,4}, 5 or 6 characters, distinct prefixes), so
\* that sets of them differ in nothing but their size.
GenericCodes ==
    <<<<"N", "O", "R", "D", "2", "0">>,
      <<"R", "A", "I", "D", "1", "5">>,
      <<"M", "I", "N", "T", "1", "0">>,
      <<"B", "O", "X", "2", "5">>,
      <<"H", "E", "L", "L", "O", "5">>,
      <<"S", "K", "I", "L", "L", "7">>,
      <<"A", "U", "D", "I", "O", "9">>,
      <<"V", "P", "N", "3", "0">>,
      <<"P", "L", "A", "Y", "4", "0">>>>

cSAVE20 == <<"S", "A", "V", "E", "2", "0">>
cNORD25 == <<"N", "O", "R", "D", "2", "5">>
cAB1 == <<"A", "B", "1">>
cWELCOME2025 == <<"W", "E", "L", "C", "O", "M", "E", "2", "0", "2", "5">>
c12345 == <<"1", "2", "3", "4", "5">>
cAAAA == <<"A", "A", "A", "A">>

SpecialCodes == {cSAVE20, cNORD25, cAB1, cWELCOME2025, c12345, cAAAA, wSUPER}

Catalogue == {GenericCodes[k] : k \in 1..Len(GenericCodes)} \cup SpecialCodes

Tiers == {"high", "medium", "low"}

\* confidenceLevels of extractCodes (src/runMvp.js), in twentieths.
confidenceLevels(tier) == IF tier = "high" THEN 18 ELSE IF tier = "medium" THEN 12 ELSE 6

\* The words of BLACKLISTED_CODES that are codes of this model.
BLACKLISTED_CODES == {wSAVE, wGET, wPROMO, wVIDEO}

wHTTP == <<"H", "T", "T", "P">>

\* String.prototype.includes
includes(code, part) ==
    \E k \in 1..(Len(code) - Len(part) + 1) : SubSeq(code, k, k + Len(part) - 1) = part

\* String.prototype.trim, on the characters of a code
trimmed(code) ==
    LET inked == {k \in 1..Len(code) : code[k] # " "} IN
    IF inked = {} THEN <<>>
    ELSE SubSeq(code, CHOOSE k \in inked : \A j \in inked : k <= j,
                      CHOOSE k \in inked : \A j \in inked : j <= k)

\* isValidCode of src/runMvp.js.
isValidCode(code) ==
    LET trimmedCode == toUpperCase(trimmed(code)) IN
    /\ Len(code) > 0
    /\ Len(trimmedCode) >= 3 /\ Len(trimmedCode) <= 12
    /\ trimmedCode \notin BLACKLISTED_CODES
    /\ ~AllDigits(trimmedCode)
    /\ ~(AllLetters(trimmedCode) /\ Len(trimmedCode) <= 2)
    /\ ~includes(trimmedCode, wHTTP)
    /\ ~(AllLetters(trimmedCode) /\ Len(trimmedCode) <= 4)
    /\ (hasLetters(trimmedCode) \/ hasNumbers(trimmedCode))
    /\ ~RepeatedCharacter(trimmedCode)

\* The object an extractor hands to scoreMatch for the codes `codes`, found by
\* patterns of the tiers `tier`: src/runMvp.js passes codeConfidence, src/textExtract.js
\* and part_012 do not; part_012 counts its high-tier matches in confidenceBoosts.
RegexResultOf(extractor, codes, tier, links, percent_off, flat_discount, rawText) ==
    [extractor |-> extractor,
     codes |-> codes,
     tier |-> tier,
     codeConfidence |-> IF extractor = "runMvp.js"
                        THEN [code \in codes |-> confidenceLevels(tier[code])]
                        ELSE NoConfidence,
     links |-> links,
     percent_off |-> percent_off,
     flat_discount |-> flat_discount,
     rawText |-> rawText,
     videoMetadata |-> NoMetadata,
     sponsorBrands |-> {},
     confidenceBoosts |-> IF extractor = "part_012"
                          THEN Cardinality({code \in codes : tier[code] = "high"})
                          ELSE 0]

\* S \cup {code}, everything else identical.
WithCode(c, code, t) ==
    RegexResultOf(c.extractor, c.codes \cup {code},
                  [x \in c.codes \cup {code} |-> IF x = code THEN t ELSE c.tier[x]],
                  c.links, c.percent_off, c.flat_discount, c.rawText)

\* S restricted to the codes `codes`, everything else identical.
Restricted(c, codes) ==
    RegexResultOf(c.extractor, codes, [x \in codes |-> c.tier[x]],
                  c.links, c.percent_off, c.flat_discount, c.rawText)

\* extractFromTranscript of part_012: score += confidenceBoosts * 0.1, capped at 1.0;
\* the other extractors return the score as it is.
\* Mutant of BoostedScore: the boosted score is not capped.
BoostedScoreUncapped(c, score) == score + c.confidenceBoosts * Pct(10)

BoostedScore(c, score) == Min(score + c.confidenceBoosts * Pct(10), One)

Scored(c, code) ==
    LET score == Score(c) IN
    [done |-> TRUE, score |-> score, confidence |-> BoostedScore(c, score), added |-> code]

\* scoreMatch(regexResult)
ScoreMatch ==
    /\ ~scored.done
    /\ scored' = Scored(cand, <<>>)
    /\ UNCHANGED <<scorer, cand, previous, exceptScore>>

\* The same input with one more code, scored again.
AddCode(code, t) ==
    /\ scored.done
    /\ ~previous.done
    /\ code \notin cand.codes
    /\ previous' = scored
    /\ cand' = WithCode(cand, code, t)
    /\ scored' = Scored(WithCode(cand, code, t), code)
    /\ UNCHANGED <<scorer, exceptScore>>

TierProfiles(codes) ==
    {[code \in codes |-> t] : t \in Tiers}
    \cup {[code \in codes |-> IF code = GenericCodes[1] THEN "medium" ELSE "low"]}

\* A text in which every code of the catalogue appears, and none of the phrases.
TextWithCodes == [NoText EXCEPT !.codes = Catalogue]

InitScore ==
    /\ EscalationIdle
    /\ SinkIdle
    /\ ExtractIdle
    /\ FilterIdle
    /\ RetryIdle
    /\ OverlayIdle
    /\ QueueIdle
    /\ ToolsIdle
    /\ scorer \in {"scoreMatch.js", "part_007"}
    /\ \E k \in 0..Min(MaxCodes, Len(GenericCodes)) :
          LET codes == {GenericCodes[j] : j \in 1..k} IN
          \E extractor \in {"textExtract.js", "runMvp.js", "part_012"},
             tier \in TierProfiles(codes),
             links \in {{}, {"https://example.org/about"}, {"https://example.com/deal"}},
             discount \in {{}, {50}},
             rawText \in {NoText, TextWithCodes} :
              cand = RegexResultOf(extractor, codes, tier, links, discount,
                                   IF discount = {} THEN {} ELSE {5}, rawText)
    /\ scored = NotScored
    /\ previous = NotScored

NextScore ==
    \/ ScoreMatch
    \/ \E code \in Catalogue, t \in Tiers : AddCode(code, t)

SpecScore == InitScore /\ [][NextScore]_vars

\* ------------------------------------------------------- claims on scoring
\* The codes a scorer flags as suspicious, with the scorer in use.
Flagged(code) ==
    IF scorer = "scoreMatch.js" THEN suspiciousCodes({code}) # {}
    ELSE suspiciousCodes007({code}) # {}

\* C13: adding a valid HIGH-tier code to an otherwise identical candidate set never
\* lowers the score: score(S \cup {c}) >= score(S).
C13_Monotonic ==
    (previous.done /\ isValidCode(scored.added) /\ cand.tier[scored.added] = "high")
        => scored.score >= previous.score

\* C14: adding a flagged-suspicious code to an otherwise identical candidate set
\* never raises the score.
C14_SuspiciousNeverRaises ==
    (previous.done /\ Flagged(scored.added)) => scored.score <= previous.score

\* C15: the scorer's confidence lies in [0, 1], and so does the confidence of a
\* result after the per-pattern boosts and the confidence an escalation answer
\* puts in its place.
C15_Bounded ==
    /\ scored.done => /\ 0 <= scored.score /\ scored.score <= One
                      /\ 0 <= scored.confidence /\ scored.confidence <= One
    /\ \A resp \in ResponsesOne :
          parseAIResponse(resp).ok =>
              /\ 0 <= parseAIResponse(resp).confidence
              /\ parseAIResponse(resp).confidence <= 10

\* A boosted score that the cap brought down to 1.
C15_Witness ==
    /\ scored.done
    /\ cand.confidenceBoosts > 0
    /\ scored.score + cand.confidenceBoosts * Pct(10) > One
    /\ scored.confidence = One

NoOtherSignal(c) == c.links = {} /\ c.percent_off = {} /\ c.flat_discount = {}

\* C16: a candidate set of 8 codes and no other signal scores strictly lower than
\* the same set with 2 of its codes.
C16_EightBelowTwo ==
    (scored.done /\ Cardinality(cand.codes) = 8 /\ NoOtherSignal(cand))
        => \A two \in SUBSET cand.codes :
              Cardinality(two) = 2 => scored.score < Score(Restricted(cand, two))

\* The status of a result of confidence `confidence` (a score) under the thresholds
\* in force.
StatusOf(confidence) == determineStatus((confidence * 10) \div One)

\* C17: with a code of a HIGH- or MEDIUM-tier pattern among the codes, the status
\* under the default thresholds is never rejected.
C17_ActionableNotRejected ==
    (scored.done /\ \E code \in cand.codes :
                        isValidCode(code) /\ cand.tier[code] \in {"high", "medium"})
        => StatusOf(scored.confidence) # "rejected"

\* ------------------------------------------------- claims on empty results
EmptyItem(i) == inputs[i].h = EmptyHeuristic.h /\ inputs[i].codes = EmptyHeuristic.codes

EmptyEscalated == isAIAvailable /\ EmptyHeuristic.h < config.aiThreshold

MaxPieces == 3

\* A text is a sequence of pieces, one space between two pieces. No match of a
\* pattern of the three modules spans two of these pieces.
Pieces ==
    {" ", "Use code NORD20.", "Coupon MINT10.", "Grab BX25.", "Special deal SK77.",
     "HELLO5", "50% off", "$5 off", "https://shop.example.com/item",
     "Check out our channel and subscribe!"}

cBX25 == <<"B", "X", "2", "5">>
cSK77 == <<"S", "K", "7", "7">>
cnord20 == <<"n", "o", "r", "d", "2", "0">>
cltt20 == <<"l", "t", "t", "2", "0">>

\* The code a piece holds.
CodeOf(piece) ==
    CASE piece = "Use code NORD20." -> GenericCodes[1]
      [] piece = "Coupon MINT10." -> GenericCodes[3]
      [] piece = "Grab BX25." -> cBX25
      [] piece = "Special deal SK77." -> cSK77
      [] piece = "HELLO5" -> GenericCodes[5]
      [] piece = "use code nord20." -> cnord20
      [] piece = "Use code AAAA." -> cAAAA
      [] piece = "ltt20" -> cltt20
      [] OTHER -> <<>>

\* The code patterns that match in a piece and yield its code: match[1], or match[0]
\* where the module takes match[1] || match[0]. `standalone` of src/runMvp.js has no
\* capture group and the module reads match[1] only, so it never yields a code.
CapturingPatterns(piece) ==
    CASE piece = "Use code NORD20." ->
             {"actionable", "labeled", "useCode", "codePrefix", "alphanum"}
      [] piece = "Coupon MINT10." -> {"labeled", "coupon", "alphanum"}
      [] piece = "Grab BX25." -> {"getSave", "alphanum"}
      [] piece = "Special deal SK77." -> {"contextual", "alphanum"}
      [] piece = "HELLO5" -> {"alphanum"}
      [] piece \in {"use code nord20.", "Use code AAAA."} ->
             {"actionable", "labeled", "useCode", "codePrefix"}
      [] piece = "ltt20" -> {"lttCode"}
      [] OTHER -> {}

\* text.matchAll(pattern), as the positions of the matches.
matchAll(pattern, text) == {k \in 1..Len(text) : pattern \in CapturingPatterns(text[k])}

CodesAt(text, positions) == {CodeOf(text[k]) : k \in positions}

linksIn(text) == {text[k] : k \in {j \in 1..Len(text) : text[j] = "https://shop.example.com/item"}}
percentOffIn(text) == IF \E k \in 1..Len(text) : text[k] = "50% off" THEN {50} ELSE {}

\* parseFloat(match[1]) of the flatDiscount pattern; 0 where it does not match.
AmountOf(piece) ==
    CASE piece = "$5 off" -> 5
      [] piece = "$50000 off" -> 50000
      [] OTHER -> 0

\* The amounts kept: those above 0, and in part_012 those up to 10000.
flatDiscountIn(module, text) ==
    {amount \in {AmountOf(text[k]) : k \in 1..Len(text)} :
        amount > 0 /\ (module = "part_012" => amount <= 10000)}

\* String.prototype.trim
trim(text) ==
    LET inked == {k \in 1..Len(text) : text[k] # " "} IN
    IF inked = {} THEN <<>>
    ELSE SubSeq(text, CHOOSE k \in inked : \A j \in inked : k <= j,
                      CHOOSE k \in inked : \A j \in inked : j <= k)

\* !value
Falsy(v) == v.type \in {"null", "undefined", "zero"} \/ (v.type = "string" /\ v.pieces = <<>>)

IsString(v) == v.type = "string"

\* What extractCodes returns: the CandidateSet, the tier of the pattern that gave
\* each code, the high-confidence matches counted.
Extracted(codes, tier, links, percent_off, flat_discount, boosts) ==
    [threw |-> FALSE, codes |-> codes, tier |-> tier, links |-> links,
     percent_off |-> percent_off, flat_discount |-> flat_discount, boosts |-> boosts]

NothingExtracted == Extracted({}, NoConfidence, {}, {}, {}, 0)

TypeError == [NothingExtracted EXCEPT !.threw = TRUE]

TierOf(code, high, medium) ==
    IF code \in high THEN "high" ELSE IF code \in medium THEN "medium" ELSE "low"

\* ------------------------------------------------------------ src/runMvp.js
highConfidenceCodes == {"actionable", "labeled", "quoted", "checkout"}
mediumConfidenceCodes == {"getSave", "percentTied", "coupon", "promo"}
lowConfidenceCodes == {"contextual", "standalone"}

ValidCodesOf(text, patterns) ==
    {code \in {toUpperCase(found) :
                  found \in CodesAt(text, UNION {matchAll(pattern, text) : pattern \in patterns})} :
        isValidCode(code)}

\* results.codes.set(code, Math.max(results.codes.get(code) || 0, level)) for the
\* codes found by the patterns of one tier.
SetAtLeast(codeMap, found, tier) ==
    [code \in DOMAIN codeMap \cup found |->
        IF code \in found
           /\ (code \notin DOMAIN codeMap
               \/ confidenceLevels(codeMap[code]) < confidenceLevels(tier))
        THEN tier ELSE codeMap[code]]

SetOverwriting(codeMap, found, tier) ==
    [code \in DOMAIN codeMap \cup found |-> IF code \in found THEN tier ELSE codeMap[code]]

\* if (!results.codes.has(code)) results.codes.set(code, level)
SetUnlessHas(codeMap, found, tier) ==
    [code \in DOMAIN codeMap \cup found |->
        IF code \in DOMAIN codeMap THEN codeMap[code] ELSE tier]

\* results.codes after the loops of the three tiers; the size test of the low
\* tier is made once, before its loop.
codesOfRunMvp(cleanText) ==
    LET afterHigh ==
            SetAtLeast(NoConfidence, ValidCodesOf(cleanText, highConfidenceCodes), "high")
        afterMedium ==
            SetUnlessHas(afterHigh, ValidCodesOf(cleanText, mediumConfidenceCodes), "medium")
    IN  IF Cardinality(DOMAIN afterMedium) < 2
        THEN SetUnlessHas(afterMedium, ValidCodesOf(cleanText, lowConfidenceCodes), "low")
        ELSE afterMedium

extractCodesRunMvp(v) ==
    IF Falsy(v) \/ ~IsString(v) THEN NothingExtracted
    ELSE LET cleanText == trim(v.pieces) IN
         IF Len(cleanText) = 0 THEN NothingExtracted
         ELSE LET codeMap == codesOfRunMvp(cleanText)
              IN  Extracted(DOMAIN codeMap, codeMap,
                            linksIn(cleanText), percentOffIn(cleanText),
                            flatDiscountIn("runMvp.js", cleanText), 0)

\* --------------------------------- src/unnamed/part_012, src/textExtract.js
highPatterns(module) ==
    IF module = "part_012" THEN {"quotedCodes", "useCode", "checkoutCode", "withCode"}
    ELSE {"quotedCodes", "useCode"}

mediumPatterns(module) ==
    IF module = "part_012" THEN {"coupon", "promo", "codePrefix"} ELSE {"coupon", "promo"}

\* The terms of techTerms that are two characters long.
techTerms == {<<"I", "7">>, <<"I", "5">>, <<"I", "9">>, <<"R", "5">>, <<"R", "7">>, <<"R", "9">>}

\* The filters of the pattern loop on a code candidate: tech terms, only digits or
\* only letters, four digits at the end (part_012); the length (both modules).
Kept(module, code) ==
    LET inUpperCase == toUpperCase(code) IN
    /\ Len(code) >= 3 /\ Len(code) <= 15
    /\ module = "part_012" =>
          /\ ~\E k \in 1..(Len(inUpperCase) - 1) : SubSeq(inUpperCase, k, k + 1) \in techTerms
          /\ ~AllDigits(inUpperCase) /\ ~AllLetters(inUpperCase)
          /\ ~(Len(inUpperCase) >= 4
               /\ AllDigits(SubSeq(inUpperCase, Len(inUpperCase) - 3, Len(inUpperCase))))

\* The blacklist of src/textExtract.js: its terms that are five characters long.
blacklist ==
    {<<"C", "O", "D", "E", "S">>, <<"P", "R", "O", "M", "O">>, <<"B", "O", "N", "U", "S">>}

\* channelRules: the entry of the first channel of the file; an entry with a
\* blacklist only, as the file has several, whose term holds a digit; an entry whose
\* custom pattern was written without the g flag.
Channels == {"UCXuqSBlHAE6Xw-yeJA0Tunw", "blacklistOnly", "lacksGlobalFlag"}

NoRules == [blacklist |-> {}, customPatterns |-> {}]

channelRules ==
    [channelId \in Channels |->
        CASE channelId = "UCXuqSBlHAE6Xw-yeJA0Tunw" ->
                 [blacklist |-> {<<"M", "E", "R", "C", "H">>, <<"L", "I", "N", "U", "S">>,
                                 <<"L", "T", "T">>},
                  customPatterns |-> {"lttCode", "techSpecs"}]
          [] channelId = "blacklistOnly" ->
                 [blacklist |-> {GenericCodes[5]}, customPatterns |-> {}]
          [] channelId = "lacksGlobalFlag" ->
                 [blacklist |-> {}, customPatterns |-> {"lacksGlobalFlag"}]]

\* String.prototype.matchAll throws a TypeError for a RegExp without the g flag.
IsGlobal(pattern) == pattern # "lacksGlobalFlag"

\* matchAll works on a copy of the pattern that starts at the pattern's lastIndex.
matchAllFrom(pattern, text, from) == {k \in matchAll(pattern, text) : k > from}

\* Mutant of LastIndexAfter: the pattern itself is advanced, as by pattern.test(text).
LastIndexAfterTest(from, matches) ==
    IF matches = {} THEN 0 ELSE CHOOSE k \in matches : \A j \in matches : k <= j

\* lastIndex of a pattern after text.matchAll(pattern): the copy advances, not the pattern.
LastIndexAfter(from, matches) == from

\* Mutant of BlacklistAfter: loadBlacklist returns coreBlacklist itself.
BlacklistAfterShared(core, effectiveBlacklist) == effectiveBlacklist

\* coreBlacklist after a call: loadBlacklist returns a new Set, and the terms of the
\* channel are added to that one.
BlacklistAfter(core, effectiveBlacklist) == core

\* The rules extractCodes applies for a channel.
RulesOf(module, channelId) ==
    IF module = "part_012" /\ channelId \in Channels THEN channelRules[channelId] ELSE NoRules

effectiveBlacklistOf(module, channelId, core) ==
    IF module = "part_012" THEN core \cup RulesOf(module, channelId).blacklist ELSE blacklist

\* The custom patterns of the channel, then the pattern loop: every pattern is
\* applied, the alphanum fallback included. Nothing catches what matchAll throws.
extractCodesWith(module, v, channelId, core, from) ==
    IF Falsy(v) \/ ~IsString(v) \/ Len(trim(v.pieces)) = 0 THEN NothingExtracted
    ELSE LET text == v.pieces
             rules == RulesOf(module, channelId)
             effectiveBlacklist == effectiveBlacklistOf(module, channelId, core)
             listed(k) == toUpperCase(CodeOf(text[k])) \in effectiveBlacklist
             customAt(pattern) ==
                 {k \in matchAllFrom(pattern, text, from[pattern]) : ~listed(k)}
             at(patterns) == {k \in UNION {matchAll(pattern, text) : pattern \in patterns} :
                                 ~listed(k) /\ Kept(module, CodeOf(text[k]))}
             high == CodesAt(text, UNION {customAt(pattern) : pattern \in rules.customPatterns})
                     \cup CodesAt(text, at(highPatterns(module)))
             medium == CodesAt(text, at(mediumPatterns(module))) \ high
             codes == high \cup medium \cup CodesAt(text, at({"alphanum"}))
             boosts == IF module = "part_012"
                       THEN SumOver(LAMBDA pattern : Cardinality(customAt(pattern)),
                                    rules.customPatterns)
                            + SumOver(LAMBDA pattern : Cardinality(at({pattern})),
                                      highPatterns(module))
                       ELSE 0
         IN  IF \E pattern \in rules.customPatterns : ~IsGlobal(pattern) THEN TypeError
             ELSE Extracted(codes, [code \in codes |-> TierOf(code, high, medium)],
                            linksIn(text), percentOffIn(text), flatDiscountIn(module, text),
                            boosts)

\* extractCodes(text) of the two modules, with no channel and nothing left by a call.
extractCodesLoop(module, v) ==
    extractCodesWith(module, v, NoChannel, CoreBlacklist, [pattern \in CustomPatterns |-> 0])

extractCodes(module, v) ==
    IF module = "runMvp.js" THEN extractCodesRunMvp(v) ELSE extractCodesLoop(module, v)

\* ------------------------------------------------------ extractFromTranscript
\* Mutant of NoLines: only null is turned away.
NoLinesOnlyNull(v) == v.type = "null"

\* !transcriptLines || !Array.isArray(transcriptLines) || transcriptLines.length === 0
NoLines(v) == Falsy(v) \/ v.type # "array" \/ Len(v.lines) = 0

validLines(lines) ==
    SelectSeq(lines, LAMBDA line : ~Falsy(line) /\ IsString(line) /\ Len(trim(line.pieces)) > 0)

RECURSIVE join(_)
join(lines) ==
    IF Len(lines) = 0 THEN <<>>
    ELSE IF Len(lines) = 1 THEN lines[1].pieces
    ELSE lines[1].pieces \o <<" ">> \o join(Tail(lines))

\* scoreMatch(regexResult), with the boost of part_012.
ConfidenceOf(module, r) ==
    LET regexResult == [RegexResultOf(module, r.codes, r.tier, r.links, r.percent_off,
                                      r.flat_discount, NoText)
                           EXCEPT !.confidenceBoosts = r.boosts]
    IN  BoostedScore(regexResult, Score(regexResult))

ExtractionOf(call, r, confidence) ==
    [done |-> TRUE, call |-> call, threw |-> r.threw, codes |-> r.codes, tier |-> r.tier,
     links |-> r.links, percent_off |-> r.percent_off, flat_discount |-> r.flat_discount,
     confidence |-> confidence]

Scanned(module, fullText) ==
    LET r == extractCodes(module, Value("string", fullText, <<>>)) IN
    ExtractionOf("extractFromTranscript", r, ConfidenceOf(module, r))

EmptyExtraction == ExtractionOf("extractFromTranscript", NothingExtracted, 0)

extractFromTranscriptRunMvp(v) ==
    IF Falsy(v) THEN EmptyExtraction
    ELSE IF v.type # "array" /\ ~IsString(v) THEN EmptyExtraction
    ELSE LET transcriptLines == IF IsString(v) THEN <<v>> ELSE v.lines IN
         IF Len(transcriptLines) = 0 THEN EmptyExtraction
         ELSE IF Len(validLines(transcriptLines)) = 0 THEN EmptyExtraction
         ELSE LET fullText == trim(join(validLines(transcriptLines))) IN
              IF Len(fullText) = 0 THEN EmptyExtraction ELSE Scanned("runMvp.js", fullText)

\* A value that is no array has no filter method: calling it throws.
extractFromTranscriptLoop(module, v) ==
    IF NoLines(v) THEN EmptyExtraction
    ELSE IF v.type # "array" THEN ExtractionOf("extractFromTranscript", TypeError, 0)
    ELSE IF Len(validLines(v.lines)) = 0 THEN EmptyExtraction
    ELSE Scanned(module, join(validLines(v.lines)))

extractFromTranscript(module, v) ==
    IF module = "runMvp.js" THEN extractFromTranscriptRunMvp(v)
    ELSE extractFromTranscriptLoop(module, v)

\* --------------------------------------------------------------------- inputs
Texts == UNION {[1..n -> Pieces] : n \in 1..MaxPieces}

StringOf(text) == Value("string", text, <<>>)
ArrayOf(lines) == Value("array", <<>>, lines)

\* The transcript whose lines are the pieces of the text.
LinesOf(text) == [k \in 1..Len(text) |-> StringOf(<<text[k]>>)]

NonText ==
    {null, Value("undefined", <<>>, <<>>), Value("zero", <<>>, <<>>),
     Value("number", <<>>, <<>>), Value("object", <<>>, <<>>)}

Transcripts ==
    NonText
    \cup {StringOf(<<>>), ArrayOf(<<>>), ArrayOf(<<null>>), ArrayOf(<<StringOf(<<>>)>>),
          ArrayOf(<<StringOf(<<" ">>), Value("number", <<>>, <<>>)>>)}
    \cup {StringOf(text) : text \in Texts}
    \cup {ArrayOf(LinesOf(text)) : text \in Texts}

\* --------------------------------------------------------------------- actions
\* await extractFromTranscript(transcript)
ExtractFromTranscript ==
    /\ ~extraction.done
    /\ extraction' = extractFromTranscript(textExtract, transcript)
    /\ UNCHANGED <<textExtract, transcript, exceptExtract>>

\* extractCodes(transcript), the exported function called on its own
ExtractCodes ==
    /\ ~extraction.done
    /\ extraction' = ExtractionOf("extractCodes", extractCodes(textExtract, transcript), 0)
    /\ UNCHANGED <<textExtract, transcript, exceptExtract>>

InitExtract ==
    /\ EscalationIdle
    /\ SinkIdle
    /\ ScoreIdle
    /\ FilterIdle
    /\ RetryIdle
    /\ OverlayIdle
    /\ QueueIdle
    /\ ToolsIdle
    /\ textExtract \in {"textExtract.js", "runMvp.js", "part_012"}
    /\ transcript \in Transcripts
    /\ extraction = NotExtracted

NextExtract == ExtractFromTranscript \/ ExtractCodes

SpecExtract == InitExtract /\ [][NextExtract]_vars

\* ------------------------------------------------------ claims on extraction
\* The input holds no text: it is no string and no array, or a string or lines
\* that are empty once trimmed.
NoTextIn(v) ==
    CASE v.type = "string" -> Len(trim(v.pieces)) = 0
      [] v.type = "array" -> Len(validLines(v.lines)) = 0
      [] OTHER -> TRUE

C20_LowOnlyBelowTwo ==
    (extraction.done
     /\ Cardinality({code \in extraction.codes :
                        extraction.tier[code] \in {"high", "medium"}}) >= 2)
        => \A code \in extraction.codes : extraction.tier[code] # "low"

\* The text that extractCodes scans for a transcript.
ScannedText(v) == IF IsString(v) THEN trim(v.pieces) ELSE trim(join(validLines(v.lines)))

\* The tiers whose patterns match `code` in the text as a valid code.
MatchingTiers(code, text) ==
    {t \in {"high", "medium", "low"} :
        code \in ValidCodesOf(text, CASE t = "high" -> highConfidenceCodes
                                      [] t = "medium" -> mediumConfidenceCodes
                                      [] t = "low" -> lowConfidenceCodes)}

\* C37: in a result of src/runMvp.js the tier map has one entry for each code and no
\* other, and the tier of a code is the highest tier of the patterns that matched it.
C37_HighestTierKept ==
    (extraction.done /\ textExtract = "runMvp.js" /\ ~extraction.threw
     /\ ~NoTextIn(transcript))
        => /\ DOMAIN extraction.tier = extraction.codes
           /\ \A code \in extraction.codes :
                LET matching == MatchingTiers(code, ScannedText(transcript))
                IN  /\ extraction.tier[code] \in matching
                    /\ \A t \in matching :
                           confidenceLevels(t) <= confidenceLevels(extraction.tier[code])

\* A code that a HIGH-tier and a MEDIUM-tier pattern both matched has the high tier.
C37_Witness ==
    /\ extraction.done /\ textExtract = "runMvp.js" /\ ~NoTextIn(transcript)
    /\ \E code \in extraction.codes :
          /\ {"high", "medium"} \subseteq MatchingTiers(code, ScannedText(transcript))
          /\ extraction.tier[code] = "high"

\* ========================================================== candidate filter
MaxRun == 5

Run(ch, n) == [k \in 1..n |-> ch]

\* Candidates of every length up to 3 * MaxRun, of letters only, of digits only,
\* of one repeated character and mixed; blacklisted words in both cases; candidates
\* with other characters.
Candidates ==
    {Run("A", a) \o Run("B", b) \o Run("1", c) : a, b, c \in 0..MaxRun}
    \cup {wSAVE, wGET, wPROMO, wVIDEO, <<"s", "a", "v", "e">>, <<"g", "e", "t">>,
          <<"a", "b", "1">>, <<" ", "A", "B", "1", " ">>, <<"A", "-", "1">>,
          <<"-", "-", "-">>, <<"-", "+", "-">>, wHTTP \o <<"1">>,
          <<"A">> \o wHTTP \o <<"S", "1">>, wDEAL, wSUPER}

\* isValidCode(candidate)
IsValidCode ==
    /\ ~verdict.done
    /\ verdict' = [done |-> TRUE, kept |-> isValidCode(candidate)]
    /\ UNCHANGED <<candidate, exceptFilter>>

InitFilter ==
    /\ EscalationIdle
    /\ SinkIdle
    /\ ScoreIdle
    /\ ExtractIdle
    /\ RetryIdle
    /\ OverlayIdle
    /\ QueueIdle
    /\ ToolsIdle
    /\ candidate \in Candidates
    /\ verdict = NotFiltered

NextFilter == IsValidCode

SpecFilter == InitFilter /\ [][NextFilter]_vars

\* The rejection rules of the candidate filter, on the case-normalized value.
Rejected(code) ==
    LET value == toUpperCase(trimmed(code)) IN
    \/ value \in BLACKLISTED_CODES
    \/ Len(value) < 3 \/ Len(value) > 15
    \/ AllDigits(value)
    \/ (AllLetters(value) /\ Len(value) <= 3)
    \/ RepeatedCharacter(value)
    \/ ~(hasLetters(value) \/ hasNumbers(value))

\* C21: the candidate filter keeps a candidate if and only if no rejection rule
\* applies to it.
C21_KeptIffNoRule == verdict.done => (verdict.kept <=> ~Rejected(candidate))

\* ------------------------------------------------ codes after an escalation
CodeSet(codes) == {codes[k] : k \in 1..Len(codes)}

\* C27: after a successful escalation the final codes are heuristic codes: those
\* the secondary scorer listed as valid when its list is not empty, all of them
\* otherwise.
C27_OnlyFilters ==
    \A i \in Items :
        result[i].aiEnhanced =>
            LET listed == parseAIResponse(inputs[i].resp).validCodes IN
            /\ CodeSet(result[i].codes) \subseteq CodeSet(inputs[i].codes)
            /\ CodeSet(result[i].codes) =
                   IF Len(listed) > 0
                   THEN CodeSet(inputs[i].codes) \cap CodeSet(listed)
                   ELSE CodeSet(inputs[i].codes)

\* An escalation has dropped a heuristic code the secondary scorer did not list.
C27_Witness ==
    \E i \in Items :
        /\ result[i].aiEnhanced
        /\ inputs[i].codes = <<"A", "B">>
        /\ result[i].codes = <<"B">>

\* ============================================================= retry driver
MaxRecords == 4
MaxClock == 2

DefaultMaxRetries == 3

\* config.retryDelay || 2000, the unit of wallClock
retryDelay == 1

\* 24 hours, in units of retryDelay
DefaultMaxAge == 43200

maxRetries == OrDefault(retrier.maxRetries, DefaultMaxRetries)

\* The entry logFailure writes: no lastRetry, no resolved, which reads as false.
FailureRecord(videoId) ==
    [videoId |-> videoId, timestamp |-> wallClock, retryCount |-> 0,
     lastRetry |-> None, resolved |-> FALSE]

\* FailureTracker.logFailure: the file is read, the entry appended, the file written.
logFailure(log, videoId) == Append(log, FailureRecord(videoId))

\* FailureTracker.markRetried: every record of the video is rewritten.
markRetried(log, videoId, success) ==
    [k \in 1..Len(log) |->
        IF log[k].videoId = videoId
        THEN [log[k] EXCEPT !.retryCount = @ + 1,
                            !.lastRetry = Some(wallClock),
                            !.resolved = success]
        ELSE log[k]]

\* The filter of retryAll.
Eligible(failure, options) ==
    /\ ~failure.resolved
    /\ ~(failure.retryCount >= maxRetries)
    /\ ~(/\ options.skipRecentFailures
         /\ failure.lastRetry # None
         /\ wallClock - failure.lastRetry[1] < retryDelay)
    /\ ~(wallClock - failure.timestamp > options.maxAge)
    /\ ~(options.onlyVideoIds # None /\ failure.videoId \notin options.onlyVideoIds[1])

RECURSIVE Upto(_)
Upto(n) == IF n = 0 THEN <<>> ELSE Append(Upto(n - 1), n)

\* The positions in the log of the records retryAll keeps, in file order.
filteredFailures(log, options) ==
    SelectSeq(Upto(Len(log)), LAMBDA k : Eligible(log[k], options))

RetryOptions ==
    [maxAge : {DefaultMaxAge, 1}, skipRecentFailures : BOOLEAN,
     onlyVideoIds : {None, Some({1})}, dryRun : BOOLEAN]

\* The video of the record the loop of retryAll is at.
CurrentVideo == failureLog[retryRun.filtered[retryRun.index]].videoId

\* retryAll up to its loop: the log is read and filtered; with nothing to retry, or
\* in a dry run, it returns.
RetryAll(options) ==
    /\ retryRun.phase = "idle"
    /\ LET kept == filteredFailures(failureLog, options) IN
       IF Len(failureLog) = 0 \/ Len(kept) = 0 \/ options.dryRun
       THEN UNCHANGED retryRun
       ELSE retryRun' = [retryRun EXCEPT !.phase = "retry", !.filtered = kept, !.index = 1]
    /\ UNCHANGED <<retrier, failureLog, reissued, wallClock, exceptRetry>>

\* One turn of the loop up to the request: markRetried(videoId, false), then the
\* request is put on the queue.
RetryRequest ==
    /\ retryRun.phase = "retry"
    /\ Len(failureLog) < MaxRecords
    /\ failureLog' = markRetried(failureLog, CurrentVideo, FALSE)
    /\ reissued' = [reissued EXCEPT ![CurrentVideo] = @ + 1]
    /\ retryRun' = [retryRun EXCEPT !.phase = "await"]
    /\ UNCHANGED <<retrier, wallClock, exceptRetry>>

\* The rest of the turn: a parsed response marks the video resolved; a request that
\* threw and a response that does not parse log a new failure. Then the next record.
RetrySettled(outcome) ==
    /\ retryRun.phase = "await"
    /\ failureLog' = IF outcome = "parsed"
                     THEN markRetried(failureLog, CurrentVideo, TRUE)
                     ELSE logFailure(failureLog, CurrentVideo)
    /\ retryRun' = IF retryRun.index < Len(retryRun.filtered)
                   THEN [retryRun EXCEPT !.phase = "retry", !.index = @ + 1]
                   ELSE [retryRun EXCEPT !.phase = "idle", !.filtered = <<>>, !.index = 0]
    /\ UNCHANGED <<retrier, reissued, wallClock, exceptRetry>>

\* The pipeline logs a failed escalation of a video (processResult).
LogFailure(videoId) ==
    /\ Len(failureLog) + (IF retryRun.phase = "await" THEN 1 ELSE 0) < MaxRecords
    /\ failureLog' = logFailure(failureLog, videoId)
    /\ retryRun' = [retryRun EXCEPT !.logged = TRUE]
    /\ UNCHANGED <<retrier, reissued, wallClock, exceptRetry>>

\* retryDelay passes.
RetryDelayPasses ==
    /\ wallClock < MaxClock
    /\ wallClock' = wallClock + 1
    /\ UNCHANGED <<retrier, failureLog, retryRun, reissued, exceptRetry>>

\* A failure file with at most one failed request per video, none retried yet.
InitRetry ==
    /\ EscalationIdle
    /\ SinkIdle
    /\ ScoreIdle
    /\ ExtractIdle
    /\ FilterIdle
    /\ OverlayIdle
    /\ QueueIdle
    /\ ToolsIdle
    /\ retrier \in [maxRetries : {None, Some(1), Some(2)}]
    /\ wallClock = 0
    /\ failureLog \in {<<>>, <<FailureRecord(1)>>, <<FailureRecord(1), FailureRecord(2)>>}
    /\ retryRun = NoRun
    /\ reissued = [v \in Videos |-> 0]

NextRetry ==
    \/ \E options \in RetryOptions : RetryAll(options)
    \/ RetryRequest
    \/ \E outcome \in {"parsed", "unparsable", "threw"} : RetrySettled(outcome)
    \/ \E videoId \in Videos : LogFailure(videoId)
    \/ RetryDelayPasses

SpecRetry == InitRetry /\ [][NextRetry]_vars

\* C29: as long as the only failures logged are those of the retries themselves,
\* the retry driver issues the request of a video at most maxRetries times.
C29_RetriesBounded ==
    ~retryRun.logged => \A v \in Videos : reissued[v] <= maxRetries

\* C30: a record that is marked resolved stays resolved.
C30_ResolvedStays ==
    [][\A k \in 1..Len(failureLog) :
          failureLog[k].resolved => failureLog'[k].resolved]_vars

\* ==================================================== calls of extractCodes
MaxCalls == 3

\* Texts with a code in upper case, in lower case and in both; with a code of one
\* repeated character; with a code a channel blacklists; with a code only a custom
\* pattern finds; with a flat discount; with nothing.
OverlayTexts ==
    {<<piece>> : piece \in {" ", "Use code NORD20.", "use code nord20.", "Use code AAAA.",
                            "HELLO5", "ltt20", "$50000 off"}}
    \cup {<<"use code nord20.", "Use code NORD20.">>}

Unmoved == [pattern \in CustomPatterns |-> 0]

\* extractCodes(text, channelId) of a module, with what earlier calls left behind.
\* src/runMvp.js and src/textExtract.js take the text only.
extractCodesOf(module, v, channelId, core, from) ==
    IF module = "runMvp.js" THEN extractCodesRunMvp(v)
    ELSE extractCodesWith(module, v, channelId, core, from)

\* The module reached its blacklist and its custom patterns: the text is not empty.
Reached(module, text) == module = "part_012" /\ Len(trim(text)) > 0

\* extractCodes(text, channelId); `keep` remembers the call before this one.
ExtractCodesOf(text, channelId, keep) ==
    /\ callCount < MaxCalls
    /\ callCount' = callCount + 1
    /\ lastCall' = [done |-> TRUE, text |-> text, channelId |-> channelId,
                    result |-> extractCodesOf(textExtract, StringOf(text), channelId,
                                              coreBlacklist, lastIndex)]
    /\ coreBlacklist' =
           IF Reached(textExtract, text)
           THEN BlacklistAfter(coreBlacklist,
                               effectiveBlacklistOf(textExtract, channelId, coreBlacklist))
           ELSE coreBlacklist
    /\ lastIndex' =
           [pattern \in CustomPatterns |->
               IF /\ Reached(textExtract, text)
                  /\ pattern \in RulesOf(textExtract, channelId).customPatterns
                  /\ IsGlobal(pattern)
               THEN LastIndexAfter(lastIndex[pattern],
                                   matchAllFrom(pattern, text, lastIndex[pattern]))
               ELSE lastIndex[pattern]]
    /\ remembered' = IF keep THEN lastCall ELSE remembered
    /\ overlaysUsed' = IF lastCall.done /\ lastCall.channelId # NoChannel
                       THEN overlaysUsed \cup {lastCall.channelId}
                       ELSE overlaysUsed
    /\ UNCHANGED <<extractVars, exceptOverlay>>

InitOverlay ==
    /\ EscalationIdle
    /\ SinkIdle
    /\ ScoreIdle
    /\ FilterIdle
    /\ RetryIdle
    /\ OverlayIdle
    /\ QueueIdle
    /\ ToolsIdle
    /\ textExtract \in {"textExtract.js", "runMvp.js", "part_012"}
    /\ transcript = null
    /\ extraction = NotExtracted

\* extractCodes of part_012 takes a channel; the other two take the text only.
ChannelIdsOf(module) == IF module = "part_012" THEN Channels \cup {NoChannel} ELSE {NoChannel}

NextOverlay ==
    \E text \in OverlayTexts, channelId \in ChannelIdsOf(textExtract), keep \in BOOLEAN :
        ExtractCodesOf(text, channelId, keep)

SpecOverlay == InitOverlay /\ [][NextOverlay]_vars

\* C22: no code of an extraction result is one repeated character.
C22_NoRepeatedCharacter ==
    lastCall.done =>
        \A code \in lastCall.result.codes : ~RepeatedCharacter(toUpperCase(code))

\* C23: no two codes of an extraction result are equal after case normalization.
C23_UniqueUnderCase ==
    lastCall.done =>
        \A c1, c2 \in lastCall.result.codes :
            toUpperCase(c1) = toUpperCase(c2) => c1 = c2

\* C24: every flat discount of an extraction result is above 0 and at most 10000.
C24_FlatDiscountInRange ==
    lastCall.done =>
        \A amount \in lastCall.result.flat_discount : amount > 0 /\ amount <= 10000

\* C25: a call after a call with another channel's overlay filters as if that
\* overlay had never been used, and the base blacklist is as it was.
C25_OverlayThisCallOnly ==
    (lastCall.done /\ \E used \in overlaysUsed : used # lastCall.channelId)
        => /\ coreBlacklist = CoreBlacklist
           /\ lastCall.result = extractCodesOf(textExtract, StringOf(lastCall.text),
                                               lastCall.channelId, CoreBlacklist, Unmoved)

\* A channel blacklisted HELLO5 for its call; the next call, without a channel,
\* found it.
C25_Witness ==
    /\ textExtract = "part_012"
    /\ remembered.done /\ remembered.channelId = "blacklistOnly"
    /\ remembered.text = <<"HELLO5">> /\ remembered.result.codes = {}
    /\ "blacklistOnly" \in overlaysUsed
    /\ lastCall.done /\ lastCall.channelId = NoChannel
    /\ lastCall.text = <<"HELLO5">> /\ lastCall.result.codes = {GenericCodes[5]}

SameContents(r1, r2) ==
    /\ r1.threw = r2.threw
    /\ r1.codes = r2.codes /\ r1.links = r2.links
    /\ r1.percent_off = r2.percent_off /\ r1.flat_discount = r2.flat_discount

C28_NothingEscapes == lastCall.done => ~lastCall.result.threw


\* ---------------------------------------------------------------------------
\* RateLimitedQueue (src/aiPostProcessor.js), used as a class of its own: any
\* requestsPerMinute, any callbacks, any request functions.
\* ---------------------------------------------------------------------------

\* options.requestsPerMinute || 20 in the constructor.
ConstructorRequestsPerMinute == 20

\* How often time is let pass while no timer of the queue is pending.
MaxIdleTicks == 2

requestsPerMinuteOf(q) == OrDefault(q.requestsPerMinute, ConstructorRequestsPerMinute)

\* The first line of process().
MayProcessNoFlag(q) == Len(q.requests) # 0
MayProcess(q) == ~q.processing /\ Len(q.requests) # 0

\* recentRequests.filter(time => time > oneMinuteAgo)
RecentAt(q, t) == SelectSeq(q.recentRequests, LAMBDA time : time > t - Minute)

InCall(w) == workers[w].st = "call"
InFlight == {w \in DOMAIN workers : InCall(w)}
Alive == {w \in DOMAIN workers : workers[w].st # "none"}

\* recentRequests.push(Date.now()); request.fn() is called and awaited.
CallFn(w, q, request) ==
    /\ rlq' = [q EXCEPT !.recentRequests = Append(@, qclock)]
    /\ workers' = [workers EXCEPT ![w] = [st |-> "call", cur |-> request, due |-> 0]]
    /\ begun' = Append(begun, request)

\* One evaluation of the while condition and the loop body up to its first await.
Pass(w, q) ==
    IF Len(q.requests) = 0
    THEN /\ rlq' = [q EXCEPT !.processing = FALSE]
         /\ workers' = [workers EXCEPT ![w] = NoWorker]
         /\ UNCHANGED begun
    ELSE LET request == Head(q.requests)
             kept == RecentAt(q, qclock)
             shifted == [q EXCEPT !.requests = Tail(@), !.recentRequests = kept]
         IN IF Len(kept) >= requestsPerMinuteOf(q)
            THEN /\ rlq' = shifted
                 /\ workers' = [workers EXCEPT ![w] =
                        [st |-> "rateWait", cur |-> request,
                         due |-> SeqMin(kept) + Minute + RateBuffer]]
                 /\ UNCHANGED begun
            ELSE CallFn(w, shifted, request)

\* process(), called by the call numbered w.
process(w, q) ==
    IF MayProcess(q)
    THEN Pass(w, [q EXCEPT !.processing = TRUE])
    ELSE /\ rlq' = q
         /\ UNCHANGED <<workers, begun>>

\* queue.add(fn): the request is pushed and process() is called.
QueueAdd ==
    /\ added < MaxRequests
    /\ added' = added + 1
    /\ process(added + 1, [rlq EXCEPT !.requests = Append(@, added + 1)])
    /\ UNCHANGED <<settled, qclock, escalationVars, exceptQueue>>

\* queue.process(), called from outside add().
QueueProcess ==
    /\ workers[0] = NoWorker
    /\ process(0, rlq)
    /\ UNCHANGED <<settled, added, qclock, escalationVars, exceptQueue>>

\* The rate wait's timer fires.
RateWaitOver(w) ==
    /\ workers[w].st = "rateWait"
    /\ workers[w].due <= qclock
    /\ CallFn(w, rlq, workers[w].cur)
    /\ UNCHANGED <<settled, added, qclock, escalationVars, exceptQueue>>

\* The 100 ms timer at the end of the loop body.
ToDelay(w) ==
    workers' = [workers EXCEPT ![w] = [@ EXCEPT !.st = "delay", !.due = qclock + RequestDelay]]

\* The exception of onError leaves process(): this.processing = false is not reached.
Escapes(w) == workers' = [workers EXCEPT ![w] = NoWorker]

\* await request.fn() returns or throws; resolve/reject and the callbacks run.
\* A throwing onSuccess lands in the catch block, where reject() has no effect
\* on the promise already resolved and onError is called.
FnSettles(w, fulfilled) ==
    /\ InCall(w)
    /\ settled' = [settled EXCEPT ![workers[w].cur] = IF fulfilled THEN "resolved" ELSE "rejected"]
    /\ LET onErrorCalled == ~fulfilled \/ rlq.onSuccessThrows
       IN IF onErrorCalled /\ rlq.onErrorThrows THEN Escapes(w) ELSE ToDelay(w)
    /\ UNCHANGED <<rlq, begun, added, qclock, escalationVars, exceptQueue>>

DelayOver(w) ==
    /\ workers[w].st = "delay"
    /\ workers[w].due <= qclock
    /\ Pass(w, rlq)
    /\ UNCHANGED <<settled, added, qclock, escalationVars, exceptQueue>>

Timers == {workers[w].due : w \in {x \in DOMAIN workers : workers[x].st \in {"rateWait", "delay"}}}

\* Time passes: to the next timer, or by half a minute while none is pending.
QueueTick ==
    /\ IF \E due \in Timers : due > qclock
       THEN qclock' = SetMin({due \in Timers : due > qclock})
       ELSE /\ Timers = {}
            /\ qclock < MaxIdleTicks * HalfMinute
            /\ qclock' = qclock + HalfMinute
    /\ UNCHANGED <<rlq, workers, settled, begun, added, escalationVars, exceptQueue>>

InitQueue ==
    /\ EscalationIdle
    /\ SinkIdle /\ ScoreIdle /\ ExtractIdle /\ FilterIdle /\ RetryIdle /\ OverlayIdle
    /\ ToolsIdle
    /\ rlq \in [requestsPerMinute : {None, Some(1), Some(2)},
               onSuccessThrows : BOOLEAN, onErrorThrows : BOOLEAN,
               requests : {<<>>}, processing : {FALSE}, recentRequests : {<<>>}]
    /\ workers = [w \in 0..MaxRequests |-> NoWorker]
    /\ settled = [r \in Requests |-> "pending"]
    /\ begun = <<>>
    /\ added = 0
    /\ qclock = 0

NextQueue ==
    \/ QueueAdd
    \/ QueueProcess
    \/ \E w \in DOMAIN workers : RateWaitOver(w)
    \/ \E w \in DOMAIN workers, fulfilled \in BOOLEAN : FnSettles(w, fulfilled)
    \/ \E w \in DOMAIN workers : DelayOver(w)
    \/ QueueTick

SpecQueue == InitQueue /\ [][NextQueue]_vars

\* C31: at no moment are two queued calls in flight, a call starts only after the
\* call before it has settled, and the calls start in the order of the add() calls.
C31_OneAtATimeInOrder ==
    /\ Cardinality(InFlight) <= 1
    /\ \A k \in DOMAIN begun :
        /\ begun[k] = k
        /\ k < Len(begun) => settled[begun[k]] # "pending"

\* The second request is in flight while the third, added during the first
\* call, waits in the queue.
C31_Witness ==
    /\ \E w \in DOMAIN workers : InCall(w) /\ workers[w].cur = 2
    /\ rlq.requests = <<3>>
    /\ begun = <<1, 2>>

\* C32: the worker never gets stuck: whenever the processing flag is set, a
\* process() call is running that will go on with the requests and clear it.
C32_WorkerNeverStuck == rlq.processing => Alive # {}

\* ---------------------------------------------------------------------------
\* AdaptiveRateLimiter (src/index.js and src/unnamed/part_010) and the callers
\* that gate an operation with `await rateLimiter.wait()`.
\* Times are in ms; the delay, which the limiter multiplies by 0.8 .. 3.3, is
\* kept in thousandths of a ms so that the products are exact.
\* ---------------------------------------------------------------------------

BaseDelay == 200
MaxDelay == 30000
BaseInterval == 100
MaxInterval == 5000

\* The operations started over a run.
MaxStarts == 3

Ms(d) == d * 1000

\* The clock at construction: Date.now() is far above lastCall = 0.
StartOfRun == MaxDelay

NewLimiter(module) ==
    LET base == IF module = "index.js" THEN Ms(BaseDelay) ELSE Ms(BaseInterval)
    IN [module |-> module, baseDelay |-> base, currentDelay |-> base, lastCall |-> 0,
        successCount |-> 0, errorCount |-> 0, consecutiveErrors |-> 0]

\* index.js: recordSuccess / recordError(errorType).
ErrorTypes == {"generic", "rate_limit", "quota_exceeded", "bad_request"}

MultiplierTenths(errorType) ==
    IF errorType \in {"rate_limit", "429"} THEN 20
    ELSE IF errorType \in {"quota_exceeded", "403"} THEN 30
    ELSE 15

recordSuccess(l) ==
    IF l.module = "index.js"
    THEN LET counted == [l EXCEPT !.successCount = @ + 1, !.consecutiveErrors = 0]
         IN IF counted.successCount % 5 = 0
            THEN [counted EXCEPT !.currentDelay = Max(l.baseDelay, (@ * 9) \div 10)]
            ELSE counted
    ELSE LET counted == [l EXCEPT !.successCount = @ + 1, !.consecutiveErrors = 0]
         IN IF counted.successCount > 3 /\ l.currentDelay > l.baseDelay
            THEN [counted EXCEPT !.currentDelay = Max(l.baseDelay, (@ * 8) \div 10)]
            ELSE counted

\* recordError of index.js; recordFailure of part_010, whose failureCount is
\* kept in consecutiveErrors.
recordError(l, errorType) ==
    IF l.module = "index.js"
    THEN LET counted == [l EXCEPT !.errorCount = @ + 1, !.consecutiveErrors = @ + 1,
                                  !.successCount = 0]
         IN [counted EXCEPT !.currentDelay =
                Min(Ms(MaxDelay),
                    (@ * MultiplierTenths(errorType) * (10 + counted.consecutiveErrors)) \div 100)]
    ELSE [l EXCEPT !.consecutiveErrors = @ + 1, !.successCount = 0,
                   !.currentDelay = Min(Ms(MaxInterval), (@ * 15) \div 10)]

\* The limiter after construction, or after one error and the successes that
\* bring it one success before the next reduction of the delay.
RECURSIVE Repeated(_, _)
Repeated(l, n) == IF n = 0 THEN l ELSE Repeated(recordSuccess(l), n - 1)

Limiters ==
    { NewLimiter("index.js"), NewLimiter("part_010"),
      Repeated(recordError(NewLimiter("index.js"), "generic"), 4),
      Repeated(recordError(NewLimiter("part_010"), "generic"), 3) }

\* setTimeout(resolve, waitTime) fires no earlier than waitTime ms later.
WaitTime(l, timeSinceLastCall) == (l.currentDelay - Ms(timeSinceLastCall) + 999) \div 1000

Started(c, delayRead) ==
    /\ limiter' = [limiter EXCEPT !.lastCall = lclock]
    /\ callers' = [callers EXCEPT ![c] = [pc |-> "running", due |-> 0, delay |-> 0]]
    /\ starts' = Append(starts, [at |-> lclock, delay |-> delayRead])

Waiting == {c \in Callers : callers[c].pc = "waiting"}

\* wait() up to its await, or to its end when it does not have to wait.
Wait(c) ==
    /\ callers[c].pc = "idle"
    /\ Len(starts) + Cardinality(Waiting) < MaxStarts
    /\ LET timeSinceLastCall == lclock - limiter.lastCall
       IN IF Ms(timeSinceLastCall) < limiter.currentDelay
          THEN /\ callers' = [callers EXCEPT ![c] =
                      [pc |-> "waiting", due |-> lclock + WaitTime(limiter, timeSinceLastCall),
                       delay |-> limiter.currentDelay]]
               /\ UNCHANGED <<limiter, starts>>
          ELSE Started(c, limiter.currentDelay)
    /\ UNCHANGED <<lclock, escalationVars, exceptLimiter>>

\* The timer of wait() fires: this.lastCall = Date.now(), and the caller goes on.
WaitOver(c) ==
    /\ callers[c].pc = "waiting"
    /\ callers[c].due <= lclock
    /\ Started(c, callers[c].delay)
    /\ UNCHANGED <<lclock, escalationVars, exceptLimiter>>

\* The gated operation ends and its outcome is recorded.
RecordSuccess(c) ==
    /\ callers[c].pc = "running"
    /\ limiter' = recordSuccess(limiter)
    /\ callers' = [callers EXCEPT ![c] = NotCalling]
    /\ UNCHANGED <<starts, lclock, escalationVars, exceptLimiter>>

RecordError(c, errorType) ==
    /\ callers[c].pc = "running"
    /\ limiter' = recordError(limiter, errorType)
    /\ callers' = [callers EXCEPT ![c] = NotCalling]
    /\ UNCHANGED <<starts, lclock, escalationVars, exceptLimiter>>

WaitTimers == {callers[c].due : c \in Waiting}

\* Time passes: to the next timer, or by the base interval while none is pending.
LimiterTick ==
    /\ IF \E due \in WaitTimers : due > lclock
       THEN lclock' = SetMin({due \in WaitTimers : due > lclock})
       ELSE /\ WaitTimers = {}
            /\ lclock < StartOfRun + MaxIdleTicks * BaseInterval
            /\ lclock' = lclock + BaseInterval
    /\ UNCHANGED <<limiter, callers, starts, escalationVars, exceptLimiter>>

InitLimiter ==
    /\ EscalationIdle
    /\ SinkIdle /\ ScoreIdle /\ ExtractIdle /\ FilterIdle /\ RetryIdle /\ OverlayIdle
    /\ QueueIdle /\ BatchIdle /\ BreakerIdle /\ PagerIdle
    /\ limiter \in Limiters
    /\ callers = [c \in Callers |-> NotCalling]
    /\ starts = <<>>
    /\ lclock = StartOfRun

NextLimiter ==
    \/ \E c \in Callers : Wait(c)
    \/ \E c \in Callers : WaitOver(c)
    \/ \E c \in Callers : RecordSuccess(c)
    \/ \E c \in Callers, errorType \in ErrorTypes : RecordError(c, errorType)
    \/ LimiterTick

SpecLimiter == InitLimiter /\ [][NextLimiter]_vars

\* C33: any two operations gated by wait() start at least the delay apart that
\* the wait() of the later one read.
C33_StartsApart ==
    \A i, j \in DOMAIN starts :
        i < j => Ms(starts[j].at - starts[i].at) >= starts[j].delay

\* ---------------------------------------------------------------------------
\* BatchProcessor (src/index.js): processInBatches and processWithRetry, for
\* one call of processInBatches on a new processor.
\* ---------------------------------------------------------------------------

\* options.maxConcurrent || 5 and options.maxRetries || 3 in the constructor.
DefaultMaxConcurrent == 5
BatchMaxRetries == 3

NewBatchProcessor(options) ==
    [maxConcurrent |-> OrDefault(options.maxConcurrent, DefaultMaxConcurrent),
     maxRetries |-> OrDefault(options.maxRetries, BatchMaxRetries),
     progressCallback |-> options.progressCallback,
     processed |-> 0, successful |-> 0, failed |-> 0, inProgress |-> {}]

BatchOptions ==
    [maxConcurrent : {None, Some(1), Some(2)},
     maxRetries : {None, Some(1), Some(2)},
     progressCallback : BOOLEAN]

\* items.slice(i, i + maxConcurrent), the items being numbered from 1.
BatchAt(b, i, n) == {t \in 1..n : i < t /\ t <= i + b.maxConcurrent}

\* The batch is mapped: every item enters inProgress and awaits its stagger delay.
StartBatch(b, i, n) ==
    /\ batcher' = [b EXCEPT !.inProgress = @ \cup BatchAt(b, i, n)]
    /\ tasks' = [t \in DOMAIN tasks |->
                    IF t \in BatchAt(b, i, n) THEN [tasks[t] EXCEPT !.pc = "stagger"]
                    ELSE tasks[t]]

\* processInBatches(items) up to its first await.
ProcessInBatches ==
    /\ batchRun.pc = "new"
    /\ IF batchRun.n = 0
       THEN /\ batchRun' = [batchRun EXCEPT !.pc = "returned"]
            /\ UNCHANGED <<batcher, tasks>>
       ELSE /\ batchRun' = [batchRun EXCEPT !.pc = "awaiting"]
            /\ StartBatch(batcher, 0, batchRun.n)
    /\ UNCHANGED <<escalationVars, exceptBatch>>

\* processFn(item) is called for attempt number `attempt`.
Invoke(task, attemptNo) ==
    [task EXCEPT !.pc = "calling", !.attempt = attemptNo, !.invoked = @ + 1]

\* The stagger delay is over: processWithRetry starts with attempt 1.
StaggerOver(t) ==
    /\ tasks[t].pc = "stagger"
    /\ tasks' = [tasks EXCEPT ![t] = Invoke(@, 1)]
    /\ UNCHANGED <<batcher, batchRun, escalationVars, exceptBatch>>

\* The catch and finally blocks of the mapped function: the item is counted as
\* failed, noted in errors and taken out of inProgress; the function returns null.
CountedFailed(b, t) ==
    [b EXCEPT !.processed = @ + 1, !.failed = @ + 1, !.inProgress = @ \ {t}]

\* processFn returned: processWithRetry returns its result, the item is counted
\* as successful and the progress callback, if any, is called inside the try.
FnReturns(t, value, callbackThrows) ==
    /\ tasks[t].pc = "calling"
    /\ callbackThrows => batcher.progressCallback
    /\ LET success == [batcher EXCEPT !.processed = @ + 1, !.successful = @ + 1]
           returned == [tasks[t] EXCEPT !.retry = "returned", !.successAt = tasks[t].attempt,
                                        !.successful = @ + 1]
       IN IF callbackThrows
          THEN /\ batcher' = CountedFailed(success, t)
               /\ tasks' = [tasks EXCEPT ![t] =
                      [returned EXCEPT !.pc = "settled", !.value = "null", !.failed = @ + 1]]
               /\ batchRun' = [batchRun EXCEPT !.errors = @ \cup {t}]
          ELSE /\ batcher' = [success EXCEPT !.inProgress = @ \ {t}]
               /\ tasks' = [tasks EXCEPT ![t] =
                      [returned EXCEPT !.pc = "settled", !.value = value]]
               /\ UNCHANGED batchRun
    /\ UNCHANGED <<escalationVars, exceptBatch>>

\* The test before the retry delay.
MayRetryAlways(attemptNo, b) == attemptNo <= b.maxRetries
MayRetry(attemptNo, b) == attemptNo < b.maxRetries

\* processFn threw: a retry delay follows, or after the last attempt the loop
\* ends, lastError is thrown and the item is counted as failed.
FnThrows(t) ==
    /\ tasks[t].pc = "calling"
    /\ LET failedAttempt == [tasks[t] EXCEPT !.lastError = tasks[t].attempt]
       IN IF MayRetry(tasks[t].attempt, batcher)
          THEN /\ tasks' = [tasks EXCEPT ![t] = [failedAttempt EXCEPT !.pc = "backoff"]]
               /\ UNCHANGED <<batcher, batchRun>>
          ELSE /\ tasks' = [tasks EXCEPT ![t] =
                      [failedAttempt EXCEPT !.pc = "settled", !.retry = "threw",
                                            !.thrown = tasks[t].attempt, !.value = "null",
                                            !.failed = @ + 1]]
               /\ batcher' = CountedFailed(batcher, t)
               /\ batchRun' = [batchRun EXCEPT !.errors = @ \cup {t}]
    /\ UNCHANGED <<escalationVars, exceptBatch>>

\* The retry delay is over: the next attempt.
BackoffOver(t) ==
    /\ tasks[t].pc = "backoff"
    /\ tasks' = [tasks EXCEPT ![t] = Invoke(@, tasks[t].attempt + 1)]
    /\ UNCHANGED <<batcher, batchRun, escalationVars, exceptBatch>>

RECURSIVE ValuesOf(_, _)
\* The non-null values of the slice, in the order of the items.
ValuesOf(slice, from) ==
    IF \A t \in slice : t < from THEN <<>>
    ELSE IF from \in slice /\ tasks[from].value = "result"
         THEN <<from>> \o ValuesOf(slice, from + 1)
         ELSE ValuesOf(slice, from + 1)

\* Promise.allSettled(batchPromises) is settled: the results are collected, and
\* the loop waits before the next slice or ends.
BatchSettled ==
    /\ batchRun.pc = "awaiting"
    /\ LET slice == BatchAt(batcher, batchRun.i, batchRun.n)
       IN /\ \A t \in slice : tasks[t].pc = "settled"
          /\ batchRun' = [batchRun EXCEPT
                 !.results = @ \o ValuesOf(slice, 1),
                 !.pc = IF batchRun.i + batcher.maxConcurrent < batchRun.n
                        THEN "delay" ELSE "returned",
                 !.i = IF batchRun.i + batcher.maxConcurrent < batchRun.n
                       THEN @ ELSE @ + batcher.maxConcurrent]
    /\ UNCHANGED <<batcher, tasks, escalationVars, exceptBatch>>

\* The delay between batches is over: the next batch is mapped.
BatchDelayOver ==
    /\ batchRun.pc = "delay"
    /\ batchRun' = [batchRun EXCEPT !.pc = "awaiting", !.i = @ + batcher.maxConcurrent]
    /\ StartBatch(batcher, batchRun.i + batcher.maxConcurrent, batchRun.n)
    /\ UNCHANGED <<escalationVars, exceptBatch>>

InitBatcher ==
    /\ EscalationIdle
    /\ SinkIdle /\ ScoreIdle /\ ExtractIdle /\ FilterIdle /\ RetryIdle /\ OverlayIdle
    /\ QueueIdle /\ LimiterIdle /\ BreakerIdle /\ PagerIdle
    /\ \E options \in BatchOptions : batcher = NewBatchProcessor(options)
    /\ tasks = [t \in 1..MaxBatchItems |-> NoTask]
    /\ \E n \in 0..MaxBatchItems :
           batchRun = [pc |-> "new", i |-> 0, n |-> n, results |-> <<>>, errors |-> {}]

NextBatcher ==
    \/ ProcessInBatches
    \/ \E t \in DOMAIN tasks : StaggerOver(t)
    \/ \E t \in DOMAIN tasks, value \in {"result", "null"}, callbackThrows \in BOOLEAN :
           FnReturns(t, value, callbackThrows)
    \/ \E t \in DOMAIN tasks : FnThrows(t)
    \/ \E t \in DOMAIN tasks : BackoffOver(t)
    \/ BatchSettled
    \/ BatchDelayOver

SpecBatcher == InitBatcher /\ [][NextBatcher]_vars

\* Timers fire and processFn settles.
SpecBatcherFair == SpecBatcher /\ WF_vars(NextBatcher)

BatchReturned == batchRun.pc = "returned"

\* C34: at most maxConcurrent items are in progress, no item is counted twice,
\* and on completion nothing is in progress, every item has been counted once
\* and processed = successful + failed = number of items.
C34_CountedOnce ==
    /\ Cardinality(batcher.inProgress) <= batcher.maxConcurrent
    /\ \A t \in DOMAIN tasks : tasks[t].successful + tasks[t].failed <= 1
    /\ BatchReturned =>
        /\ batcher.inProgress = {}
        /\ \A t \in 1..batchRun.n : tasks[t].successful + tasks[t].failed = 1
        /\ batcher.processed = batcher.successful + batcher.failed
        /\ batcher.processed = batchRun.n

\* What processWithRetry has done for every item so far.
RetryAsSpecified ==
    \A t \in DOMAIN tasks :
        /\ tasks[t].invoked <= batcher.maxRetries
        /\ tasks[t].retry = "returned" => tasks[t].invoked = tasks[t].successAt
        /\ tasks[t].retry = "threw" =>
            /\ tasks[t].invoked = batcher.maxRetries
            /\ tasks[t].thrown = tasks[t].invoked
            /\ tasks[t].successAt = 0

\* C35: processWithRetry calls processFn at most maxRetries times per item, returns
\* at the first success without a further call, throws the error of the last call
\* after maxRetries failures, and every call of it ends.
C35_RetryTerminates ==
    /\ []RetryAsSpecified
    /\ <>(BatchReturned /\ \A t \in 1..batchRun.n : tasks[t].retry # "none")

\* Of two items with maxRetries = 2, one succeeded at its second attempt and
\* the other failed twice.
C35_Witness ==
    /\ batcher.maxRetries = 2
    /\ \E t \in DOMAIN tasks :
        tasks[t].retry = "returned" /\ tasks[t].successAt = 2 /\ tasks[t].invoked = 2
    /\ \E t \in DOMAIN tasks :
        tasks[t].retry = "threw" /\ tasks[t].thrown = 2 /\ tasks[t].invoked = 2

\* ---------------------------------------------------------------------------
\* CircuitBreaker (src/index.js and src/unnamed/part_010) with concurrent
\* execute() calls.
\* ---------------------------------------------------------------------------

\* constructor(threshold = 5, timeout = 60000)
DefaultThreshold == 5
BreakerTimeout == 60000

\* How long the clock runs, in half minutes.
MaxBreakerTicks == 5

\* A default parameter replaces undefined only.
NewBreaker(module, threshold) ==
    [module |-> module,
     threshold |-> IF threshold = None THEN DefaultThreshold ELSE threshold[1],
     timeout |-> BreakerTimeout, failureCount |-> 0, state |-> "CLOSED",
     nextAttempt |-> bclock, lastFailureTime |-> 0]

\* The test of execute() that lets a call through an OPEN breaker.
MayAttempt(b, t) ==
    IF b.module = "index.js" THEN ~(t < b.nextAttempt)
    ELSE t - b.lastFailureTime > b.timeout

onSuccessKeepsCount(b) == [b EXCEPT !.state = "CLOSED"]
onSuccess(b) == [b EXCEPT !.failureCount = 0, !.state = "CLOSED"]

onFailure(b, t) ==
    LET counted == [b EXCEPT !.failureCount = @ + 1]
    IN IF b.module = "index.js"
       THEN IF counted.failureCount >= b.threshold
            THEN [counted EXCEPT !.state = "OPEN", !.nextAttempt = t + b.timeout]
            ELSE counted
       ELSE IF counted.failureCount >= b.threshold
            THEN [counted EXCEPT !.lastFailureTime = t, !.state = "OPEN"]
            ELSE [counted EXCEPT !.lastFailureTime = t]

\* What is noted of the run when the breaker goes from `before` to `after`.
Noted(before, after, outcome) ==
    [bhist EXCEPT
        !.outcomes = IF outcome = "none" THEN @ ELSE Append(@, outcome),
        !.openedAt = IF after.state = "OPEN" /\ before.state # "OPEN" THEN bclock ELSE @]

\* execute(fn) up to `await fn()`, or to its throw when the breaker refuses.
Execute(c) ==
    /\ calls[c] \in {"idle", "refused", "returned", "threw"}
    /\ bhist.executed < MaxExecutes
    /\ IF breaker.state = "OPEN" /\ ~MayAttempt(breaker, bclock)
       THEN /\ calls' = [calls EXCEPT ![c] = "refused"]
            /\ bhist' = [bhist EXCEPT !.executed = @ + 1]
            /\ UNCHANGED breaker
       ELSE /\ breaker' = IF breaker.state = "OPEN"
                          THEN [breaker EXCEPT !.state = "HALF_OPEN"] ELSE breaker
            /\ calls' = [calls EXCEPT ![c] = "running"]
            /\ bhist' = [bhist EXCEPT !.executed = @ + 1, !.invoked = @ + 1]
    /\ UNCHANGED <<bclock, escalationVars, exceptBreaker>>

OperationReturns(c) ==
    /\ calls[c] = "running"
    /\ breaker' = onSuccess(breaker)
    /\ calls' = [calls EXCEPT ![c] = "returned"]
    /\ bhist' = Noted(breaker, breaker', "success")
    /\ UNCHANGED <<bclock, escalationVars, exceptBreaker>>

OperationThrows(c) ==
    /\ calls[c] = "running"
    /\ breaker' = onFailure(breaker, bclock)
    /\ calls' = [calls EXCEPT ![c] = "threw"]
    /\ bhist' = Noted(breaker, breaker', "failure")
    /\ UNCHANGED <<bclock, escalationVars, exceptBreaker>>

BreakerTick ==
    /\ bclock < MaxBreakerTicks * HalfMinute
    /\ bclock' = bclock + HalfMinute
    /\ UNCHANGED <<breaker, calls, bhist, escalationVars, exceptBreaker>>

InitBreaker ==
    /\ EscalationIdle
    /\ SinkIdle /\ ScoreIdle /\ ExtractIdle /\ FilterIdle /\ RetryIdle /\ OverlayIdle
    /\ QueueIdle /\ LimiterIdle /\ BatchIdle /\ PagerIdle
    /\ bclock = 0
    /\ \E module \in {"index.js", "part_010"}, threshold \in {None, Some(1), Some(2)} :
           breaker = NewBreaker(module, threshold)
    /\ calls = [c \in 1..MaxCalling |-> "idle"]
    /\ bhist = [outcomes |-> <<>>, openedAt |-> 0, executed |-> 0, invoked |-> 0]

NextBreaker ==
    \/ \E c \in DOMAIN calls : Execute(c)
    \/ \E c \in DOMAIN calls : OperationReturns(c)
    \/ \E c \in DOMAIN calls : OperationThrows(c)
    \/ BreakerTick

SpecBreaker == InitBreaker /\ [][NextBreaker]_vars

\* The breaker is OPEN and less than its timeout has passed since it opened.
OpenAndNotElapsed == breaker.state = "OPEN" /\ bclock < bhist.openedAt + breaker.timeout

\* The last `threshold` operations that ended have all failed.
FailedInARow ==
    /\ Len(bhist.outcomes) >= breaker.threshold
    /\ \A k \in DOMAIN bhist.outcomes :
           k > Len(bhist.outcomes) - breaker.threshold => bhist.outcomes[k] = "failure"

\* C36: an execute() called while the breaker is OPEN and its timeout has not
\* elapsed is refused and calls no operation, whatever calls are running; and the
\* breaker is OPEN only when the last `threshold` operations all failed.
C36_OpenRefuses ==
    /\ [](breaker.state = "OPEN" => FailedInARow)
    /\ [][\A c \in DOMAIN calls :
            (OpenAndNotElapsed /\ calls'[c] # calls[c] /\ calls[c] # "running")
                => (calls'[c] = "refused" /\ bhist'.invoked = bhist.invoked)]_vars

\* A call was refused by the OPEN breaker while another call, let through
\* earlier, is still running.
C36_Witness ==
    /\ OpenAndNotElapsed
    /\ \E c, d \in DOMAIN calls : calls[c] = "refused" /\ calls[d] = "running"

\* ---------------------------------------------------------------------------
\* fetchAllVideos (src/nextPageToken.js): one call, with any answers of the API.
\* ---------------------------------------------------------------------------

\* maxTotalVideos = 500 in the options; Math.ceil(maxTotalVideos / 50).
DefaultMaxTotalVideos == 500
PageLimit == 50

\* The values of options.maxTotalVideos: a default parameter replaces undefined only.
TotalsAsked == {None, Some(0), Some(1), Some(PageLimit), Some(PageLimit + 1), Some(2 * PageLimit + 20)}

\* The numbers of items in a page: none, one, a full page, more than was asked for.
PageSizes == {0, 1, PageLimit, PageLimit + 10}

\* The answers that make getCachedOrFetch or the reading of its data throw:
\* HTTP 403, HTTP 400, any other error.
Failures == {"403", "400", "other"}

CeilDiv(a, b) == (a + b - 1) \div b

maxRequestsOf(maxTotalVideos) == CeilDiv(maxTotalVideos, PageLimit)

\* validateChannelId and the test of apiKey passed: the locals before the loop.
Fetching(maxTotalVideos) ==
    [pc |-> "requesting", maxTotalVideos |-> maxTotalVideos,
     maxRequests |-> maxRequestsOf(maxTotalVideos),
     videos |-> 0, malformed |-> FALSE, nextPageToken |-> FALSE, totalRequests |-> 1]

\* The object returned from the outer catch block.
Failed == [success |-> FALSE, totalResults |-> 0, totalRequests |-> 0]

\* The statements after the loop: an item without id makes videos.map throw,
\* and the outer catch block returns.
Return(p) ==
    /\ pager' = [p EXCEPT !.pc = "returned"]
    /\ fetched' = IF p.malformed THEN Failed
                  ELSE [success |-> TRUE, totalResults |-> p.videos,
                        totalRequests |-> p.totalRequests]

\* fetchAllVideos(channelId, apiKey, options) up to the first request.
FetchAllVideos(valid, maxTotalVideos) ==
    /\ pager.pc = "new"
    /\ IF valid
       THEN /\ pager' = Fetching(IF maxTotalVideos = None THEN DefaultMaxTotalVideos
                                 ELSE maxTotalVideos[1])
            /\ UNCHANGED fetched
       ELSE /\ pager' = [pager EXCEPT !.pc = "returned"]
            /\ fetched' = Failed
    /\ UNCHANGED <<escalationVars, exceptPager>>

\* while (nextPageToken && totalRequests < maxRequests)
LoopAgain(p) == p.nextPageToken /\ p.totalRequests < p.maxRequests

\* The loop condition, and totalRequests++ with the next request when it holds.
Loop(p) ==
    IF LoopAgain(p)
    THEN /\ pager' = [p EXCEPT !.pc = "requesting", !.totalRequests = @ + 1]
         /\ UNCHANGED fetched
    ELSE Return(p)

sliceNone(length, end) == length
\* The length of videos.slice(0, end), for end >= 0.
slice(length, end) == Min(length, end)

\* getCachedOrFetch returned a page with `size` items and, or not, a next page token.
PageReturns(size, token, malformed) ==
    /\ pager.pc = "requesting"
    /\ malformed => size > 0
    /\ LET read == [pager EXCEPT !.videos = @ + size, !.nextPageToken = token,
                                 !.malformed = @ \/ malformed]
       IN IF read.videos >= read.maxTotalVideos
          THEN Return([read EXCEPT !.videos = slice(@, read.maxTotalVideos)])
          ELSE IF read.nextPageToken /\ read.totalRequests < read.maxRequests
               THEN /\ pager' = [read EXCEPT !.pc = "delay"]
                    /\ UNCHANGED fetched
               ELSE Loop(read)
    /\ UNCHANGED <<escalationVars, exceptPager>>

\* The inner catch block.
PageFails(failure) ==
    /\ pager.pc = "requesting"
    /\ IF failure \in {"403", "400"} \/ pager.totalRequests >= 3
       THEN Return(pager)
       ELSE Loop(pager)
    /\ UNCHANGED <<escalationVars, exceptPager>>

\* The 100 ms between two pages are over.
PageDelayOver ==
    /\ pager.pc = "delay"
    /\ Loop(pager)
    /\ UNCHANGED <<escalationVars, exceptPager>>

InitPager ==
    /\ EscalationIdle
    /\ SinkIdle /\ ScoreIdle /\ ExtractIdle /\ FilterIdle /\ RetryIdle /\ OverlayIdle
    /\ QueueIdle /\ LimiterIdle /\ BatchIdle /\ BreakerIdle
    /\ PagerIdle

NextPager ==
    \/ \E valid \in BOOLEAN, maxTotalVideos \in TotalsAsked : FetchAllVideos(valid, maxTotalVideos)
    \/ \E size \in PageSizes, token \in BOOLEAN, malformed \in BOOLEAN :
           PageReturns(size, token, malformed)
    \/ \E failure \in Failures : PageFails(failure)
    \/ PageDelayOver

SpecPager == InitPager /\ [][NextPager]_vars

\* Every request is answered and the timer fires.
SpecPagerFair == SpecPager /\ WF_vars(NextPager)

PagesAllowed == Max(1, CeilDiv(pager.maxTotalVideos, PageLimit))

WithinLimits ==
    pager.pc # "new" =>
        /\ pager.totalRequests <= PagesAllowed
        /\ pager.pc = "returned" => fetched.totalResults <= pager.maxTotalVideos

\* C38: fetchAllVideos makes at most max(1, ceil(maxTotalVideos / 50)) page
\* requests, returns at most maxTotalVideos videos, and returns.
C38_PagingTerminates == []WithinLimits /\ <>(pager.pc = "returned")

\* A call with maxTotalVideos = 51 returned after both of its two requests, the
\* pages cut to 51 videos.
C38_Witness ==
    /\ pager.pc = "returned" /\ pager.maxTotalVideos = PageLimit + 1
    /\ pager.totalRequests = 2 /\ fetched.success /\ fetched.totalResults = PageLimit + 1

====
